---------------------------- MODULE Spec2Model ----------------------------
(***************************************************************************)
(* HomGar cloud client and device-status decoder                           *)
(* (custom_components/homgar/api.py, custom_components/homgar/devices.py). *)
(*                                                                         *)
(* Python values are represented as follows.                               *)
(*   str            a TLA+ string; s[a:b] is Slice(s, a, b)                *)
(*   None / value   None is <<>>, a present value v is <<v>> (Some(v))     *)
(*   int            an Integer; the result of int(x, 16), which for 8 hex  *)
(*                  digits exceeds 2^31, is the pair <<hi, lo>> that       *)
(*                  stands for hi * 65536 + lo                             *)
(*   float          .1 * v is kept as the integer v, in tenths             *)
(*   object         a record of its attributes plus cls, its class; an     *)
(*                  attribute that was never assigned is not in the domain *)
(*   exception      an operator that can raise returns a record with a     *)
(*                  field raised, and the state reached at the raise       *)
(***************************************************************************)
EXTENDS Integers, Sequences, FiniteSets, TLC

VARIABLES
    timer,      \* a DiivooWT11W object whose decoder methods are called
    call,       \* the last call made on timer: method, argument, zones before
    now,        \* datetime.utcnow(), in seconds since 1970-01-01 00:00
    cache,      \* HomgarApi.cache
    homes,      \* the homes the caller holds, as get_homes returned them
    hubs,       \* the hubs the caller holds, as get_devices_for_hid returned them
    poll,       \* the get_device_status call under way, if any
    last,       \* the last HomgarApi or device call: its input and the state before
    reply,      \* what the last HomgarApi call sent, returned or raised
    subscription_data,      \* HomgarApi.subscription_data
    mqtt_client,            \* HomgarApi.mqtt_client: None or the id of a client
    mqtt_connected,         \* HomgarApi.mqtt_connected
    status_callbacks,       \* HomgarApi.status_callbacks
    _subscription_devices,  \* HomgarApi._subscription_devices
    _subscription_hids,     \* HomgarApi._subscription_hids
    _mqtt_lock,             \* HomgarApi._mqtt_lock: None or the thread that holds it
    clients,    \* the paho clients created so far: network loop and link
    threads,    \* the threads that call the push methods: the call under way
    history,    \* the last subscribe that succeeded, what followed a renewal,
                \* and what the last broker message led to
    coordinator \* HomgarDataUpdateCoordinator: devices, flags and renewal task

decoderVars == <<timer, call>>
pushVars ==
    <<subscription_data, mqtt_client, mqtt_connected, status_callbacks,
      _subscription_devices, _subscription_hids, _mqtt_lock, clients, threads,
      history, coordinator>>
apiVars == <<now, cache, homes, hubs, poll, last, reply, pushVars>>
vars == <<timer, call, now, cache, homes, hubs, poll, last, reply, pushVars>>

None == <<>>
Some(v) == <<v>>

-----------------------------------------------------------------------------
(* Hex streams the decoder methods are called with *)

\* the most filler blocks put in front of the tags of a stream
MaxFill == 1

\* 50 characters of the documented frame's sequence and unknown groups
FillBlock == "17E19F001D201E201F2018DC011D201E201F2018DC0117E19F"

RECURSIVE Fill(_)
Fill(k) == IF k = 0 THEN "" ELSE FillBlock \o Fill(k - 1)

\* the frame documented in DiivooWT11W._parse_device_specific_status_d_value
DocFrame ==
    "17E19F00" \o "19D821" \o "1AD800" \o "1BD800" \o "1D201E" \o "201F20"
    \o "18DC01" \o "21B79AE7DE15" \o "22B700000000" \o "23B700000000"
    \o "25ADDC05" \o "26AD0000" \o "27AD0000"

\* a later frame: zone 1 switched off, zones 2 and 3 on, zone 1 counters at zero
OffFrame ==
    "17E19F01" \o "19D820" \o "1AD821" \o "1BD821" \o "21B700000000"
    \o "25AD0000"

TagGroups ==
    { "", DocFrame, OffFrame,
      "1BD8001AD80019D821", "19D8201AD8001BD80019D821",
      "19D821", "19D800", "19D8FF19D821", "19D82",
      "21B79AE7DEXY", "21B79AE7DE1", "25ADDCZZ", "25ADDC0" }

HexStreams == { Fill(k) \o g : k \in 0..MaxFill, g \in TagGroups }

\* the general part and the prefix of a polled record value
PollPrefix == "1,-40,2;11#"

TimerValues ==
    { PollPrefix \o h : h \in HexStreams }
    \cup { "11#" \o DocFrame, DocFrame, "", "1,-40,2;11",
           PollPrefix \o DocFrame \o "#" \o OffFrame }

-----------------------------------------------------------------------------
(* Record values the sensors and hubs are given *)

HubValues ==
    { "1,0,1;781(781/723/1),52(64/50/1),P=10213(10222/10205/1),",
      "1,0,1;781(781/723/1),52,P=10213(10222/10205/1),",
      "1,0,1;78.1,52(64/50/1),P=10213(10222/10205/1)," }
SoilValues == { "1,-58,1;766,52,G=31351", "1,-58,1;766,,G=31351" }
RainValues == { "1,-70,1;R=270(0/0/270)", "1,-70,1;R=" }
AirValues ==
    { "1,-61,1;755(1020/588/1),54(91/24/1),", "1,-61,1;755(1020/588/1),54," }
ZoneTimerValues == { "1,-50,1;0,9,0", "garbage" }
IrrigationValues == { PollPrefix \o DocFrame, "1,-40,2;11" }

SensorValues ==
    HubValues \cup SoilValues \cup RainValues \cup AirValues \cup ZoneTimerValues
    \cup IrrigationValues \cup {"1,-40,1;0", "1", "x", "0,-15"}

-----------------------------------------------------------------------------
(* Python str operations *)

Min2(a, b) == IF a < b THEN a ELSE b

\* s[a:b] for 0 <= a, 0 <= b
Slice(s, a, b) == SubSeq(s, a + 1, Min2(b, Len(s)))

\* s[a:]
SliceFrom(s, a) == SubSeq(s, a + 1, Len(s))

\* s.find(pattern): the lowest index where pattern starts, -1 when there is none
FindFirst(s, pattern) ==
    LET n == Len(pattern)
        hits == {i \in 0..(Len(s) - n) : SubSeq(s, i + 1, i + n) = pattern}
    IN  IF hits = {} THEN -1 ELSE CHOOSE i \in hits : \A j \in hits : i <= j

RECURSIVE SplitAll(_, _)
SplitAll(s, sep) ==
    LET p == FindFirst(s, sep)
    IN  IF p = -1 THEN <<s>>
        ELSE <<Slice(s, 0, p)>> \o SplitAll(SliceFrom(s, p + Len(sep)), sep)

TagPatterns ==
    {"19D8", "1AD8", "1BD8", "21B7", "22B7", "23B7", "25AD", "26AD", "27AD"}

Separators == {"#", ";", ",", "/", "("}

\* the parts of the strings of values between the separators sep
Parts(values, sep) ==
    UNION { {SplitAll(v, sep)[i] : i \in 1..Len(SplitAll(v, sep))} : v \in values }

\* the fields of the record values of the sensors
SensorFields == Parts(Parts(SensorValues, ";"), ",")

\* the strings of the model that are searched and split
SearchedStrings ==
    HexStreams \cup TimerValues \cup SensorValues \cup Parts(SensorValues, ";")
    \cup SensorFields \cup { SliceFrom(f, 2) : f \in SensorFields }

\* FindFirst, computed once for the strings and the patterns of the model
FindTable ==
    [s \in SearchedStrings |->
        [t \in TagPatterns \cup Separators |-> FindFirst(s, t)]]

Find(s, pattern) ==
    IF s \in DOMAIN FindTable /\ pattern \in TagPatterns \cup Separators
    THEN FindTable[s][pattern]
    ELSE FindFirst(s, pattern)

\* sub in s
Contains(s, sub) == Find(s, sub) >= 0

\* SplitAll, computed once for the record values of the model
SplitTable ==
    [s \in SearchedStrings |-> [sep \in Separators |-> SplitAll(s, sep)]]

\* s.split(sep)
Split(s, sep) ==
    IF s \in DOMAIN SplitTable /\ sep \in Separators
    THEN SplitTable[s][sep]
    ELSE SplitAll(s, sep)

HexDigits == <<"0", "1", "2", "3", "4", "5", "6", "7", "8", "9",
               "A", "B", "C", "D", "E", "F">>

IsHexDigit(c) == \E k \in 1..16 : HexDigits[k] = c

HexDigitValue(c) == (CHOOSE k \in 1..16 : HexDigits[k] = c) - 1

\* the value of a string of hex digits, most significant digit first, as <<hi, lo>>
RECURSIVE HexFold(_, _)
HexFold(s, acc) ==
    IF s = "" THEN acc
    ELSE HexFold(SliceFrom(s, 1),
                 << (acc[1] * 16 + acc[2] \div 4096) % 65536,
                    (acc[2] % 4096) * 16 + HexDigitValue(Slice(s, 0, 1)) >>)

RECURSIVE Reversed(_)
Reversed(s) == IF s = "" THEN "" ELSE Reversed(SliceFrom(s, 1)) \o Slice(s, 0, 1)

\* int(s, 16) reading the digits least significant first
IntBase16LittleEndian(s) ==
    IF s # "" /\ \A i \in 1..Len(s) : IsHexDigit(SubSeq(s, i, i))
    THEN [ok |-> TRUE, v |-> HexFold(Reversed(s), <<0, 0>>)]
    ELSE [ok |-> FALSE, v |-> <<0, 0>>]

\* s is a string of hex digits
IsHex(s) == s # "" /\ \A i \in 1..Len(s) : IsHexDigit(SubSeq(s, i, i))

\* the pair of -n for the pair of n: both halves negated
Negated(v) == <<0 - v[1], 0 - v[2]>>

\* int(s, 16) for s of at most 8 characters over digits, upper-case letters
\* and signs: a sign may stand before the digits, and ok is FALSE where
\* Python raises ValueError
IntBase16(s) ==
    IF IsHex(s)
    THEN [ok |-> TRUE, v |-> HexFold(s, <<0, 0>>)]
    ELSE IF Slice(s, 0, 1) = "+" /\ IsHex(SliceFrom(s, 1))
    THEN [ok |-> TRUE, v |-> HexFold(SliceFrom(s, 1), <<0, 0>>)]
    ELSE IF Slice(s, 0, 1) = "-" /\ IsHex(SliceFrom(s, 1))
    THEN [ok |-> TRUE, v |-> Negated(HexFold(SliceFrom(s, 1), <<0, 0>>))]
    ELSE [ok |-> FALSE, v |-> <<0, 0>>]

\* the value of a string of decimal digits
RECURSIVE DecFold(_, _)
DecFold(s, acc) ==
    IF s = "" THEN acc
    ELSE DecFold(SliceFrom(s, 1), acc * 10 + HexDigitValue(Slice(s, 0, 1)))

IsDecimal(s) ==
    s # "" /\ \A i \in 1..Len(s) : \E k \in 1..10 : HexDigits[k] = SubSeq(s, i, i)

\* int(s) for s without blanks and underscores: an optional sign and decimal
\* digits; ok is FALSE where Python raises ValueError
IntBase10(s) ==
    LET signed == s # "" /\ Slice(s, 0, 1) \in {"-", "+"}
        digits == IF signed THEN SliceFrom(s, 1) ELSE s
    IN  IF IsDecimal(digits)
        THEN [ok |-> TRUE,
              v |-> IF signed /\ Slice(s, 0, 1) = "-"
                    THEN 0 - DecFold(digits, 0) ELSE DecFold(digits, 0)]
        ELSE [ok |-> FALSE, v |-> 0]

\* f"D{address:02d}"
StatusId(address) ==
    "D" \o (IF 0 <= address /\ address < 10 THEN "0" ELSE "") \o ToString(address)

-----------------------------------------------------------------------------
(* DiivooWT11W: the tag-hex decoder *)

Ports == 1..3

NewZones ==
    [p \in Ports |-> [active |-> FALSE, status |-> "off_idle",
                      countdown_timer |-> <<0, 0>>, duration_setting |-> <<0, 0>>]]

StatusCodes == {"D821", "D820", "D800"}

\* status_map with the two off codes exchanged
status_map_swapped(c) ==
    CASE c = "D821" -> "on"
      [] c = "D820" -> "off_idle"
      [] c = "D800" -> "off_recent"

status_map(c) ==
    CASE c = "D821" -> "on"
      [] c = "D820" -> "off_recent"
      [] c = "D800" -> "off_idle"

port_patterns == <<"19D8", "1AD8", "1BD8">>
timer_patterns == <<"21B7", "22B7", "23B7">>
duration_patterns == <<"25AD", "26AD", "27AD">>

\* PortStatus that puts a zone whose tag is missing back to off_idle
PortStatusResetting(zone, pattern, hex_data) ==
    LET pattern_pos == Find(hex_data, pattern)
    IN  IF pattern_pos >= 0 /\ pattern_pos + 6 <= Len(hex_data)
        THEN LET status_hex == Slice(hex_data, pattern_pos + 2, pattern_pos + 6)
             IN  IF status_hex \in StatusCodes
                 THEN [zone EXCEPT !.active = (status_map(status_hex) = "on"),
                                   !.status = status_map(status_hex)]
                 ELSE zone
        ELSE [zone EXCEPT !.active = FALSE, !.status = "off_idle"]

\* PortStatus that reads the status at the documented index of the frame
\* instead of searching the tag
PortStatusFixedOffset(zone, pattern, hex_data) ==
    LET pattern_pos == CASE pattern = "19D8" -> 8
                         [] pattern = "1AD8" -> 14
                         [] pattern = "1BD8" -> 20
        full_pattern == Slice(hex_data, pattern_pos, pattern_pos + 6)
        status_hex == SliceFrom(full_pattern, 2)
    IN  IF Len(full_pattern) = 6 /\ Slice(full_pattern, 0, 4) = pattern
           /\ status_hex \in StatusCodes
        THEN [zone EXCEPT !.active = (status_map(status_hex) = "on"),
                          !.status = status_map(status_hex)]
        ELSE zone

\* the zone with the status that the code status_hex stands for
PortStatusCode(zone, status_hex) ==
    IF status_hex \in StatusCodes
    THEN [zone EXCEPT !.active = (status_map(status_hex) = "on"),
                      !.status = status_map(status_hex)]
    ELSE zone

\* the body of the loop once hex_data.find(pattern) is known
PortStatusAt(zone, hex_data, pattern_pos) ==
    IF pattern_pos >= 0 /\ pattern_pos + 6 <= Len(hex_data)
    THEN PortStatusCode(zone,
                        SliceFrom(Slice(hex_data, pattern_pos, pattern_pos + 6), 2))
    ELSE zone

\* one iteration of the loop of _parse_port_statuses_precise
PortStatus(zone, pattern, hex_data) ==
    PortStatusAt(zone, hex_data, Find(hex_data, pattern))

_parse_port_statuses_precise(zones, hex_data) ==
    [p \in Ports |-> PortStatus(zones[p], port_patterns[p], hex_data)]

\* int(timer_value_hex, 16), or 0 when it raises ValueError
CountdownTimerValue(zone, timer_value) ==
    IF timer_value.ok
    THEN [zone EXCEPT !.countdown_timer = timer_value.v]
    ELSE [zone EXCEPT !.countdown_timer = <<0, 0>>]

CountdownTimerHex(zone, pattern, timer_hex) ==
    IF Slice(timer_hex, 0, Len(pattern)) = pattern
    THEN CountdownTimerValue(zone, IntBase16(SliceFrom(timer_hex, 4)))
    ELSE zone

\* the body of the loop once hex_data.find(pattern) is known
CountdownTimerAt(zone, pattern, hex_data, pattern_pos) ==
    IF pattern_pos >= 0 /\ pattern_pos + 12 <= Len(hex_data)
    THEN CountdownTimerHex(zone, pattern,
                           Slice(hex_data, pattern_pos, pattern_pos + 12))
    ELSE zone

\* one iteration of the loop of _parse_countdown_timers_precise
CountdownTimer(zone, pattern, hex_data) ==
    CountdownTimerAt(zone, pattern, hex_data, Find(hex_data, pattern))

_parse_countdown_timers_precise(zones, hex_data) ==
    [p \in Ports |-> CountdownTimer(zones[p], timer_patterns[p], hex_data)]

\* int(duration_value_hex, 16), or 0 when it raises ValueError
DurationSettingValue(zone, duration_value) ==
    IF duration_value.ok
    THEN [zone EXCEPT !.duration_setting = duration_value.v]
    ELSE [zone EXCEPT !.duration_setting = <<0, 0>>]

DurationSettingHex(zone, pattern, duration_hex) ==
    IF Slice(duration_hex, 0, Len(pattern)) = pattern
    THEN DurationSettingValue(zone, IntBase16(SliceFrom(duration_hex, 4)))
    ELSE zone

\* the body of the loop once hex_data.find(pattern) is known
DurationSettingAt(zone, pattern, hex_data, pattern_pos) ==
    IF pattern_pos >= 0 /\ pattern_pos + 8 <= Len(hex_data)
    THEN DurationSettingHex(zone, pattern,
                            Slice(hex_data, pattern_pos, pattern_pos + 8))
    ELSE zone

\* one iteration of the loop of _parse_duration_settings_precise
DurationSetting(zone, pattern, hex_data) ==
    DurationSettingAt(zone, pattern, hex_data, Find(hex_data, pattern))

_parse_duration_settings_precise(zones, hex_data) ==
    [p \in Ports |-> DurationSetting(zones[p], duration_patterns[p], hex_data)]


-----------------------------------------------------------------------------
(* Device objects *)

\* HomgarDevice.__init__, HomgarSubDevice.__init__ and DiivooWT11W.__init__
NewDiivooWT11W(props) ==
    [cls |-> "DiivooWT11W", model_code |-> props.model_code, did |-> props.did,
     mid |-> props.mid, address |-> props.address,
     port_number |-> props.port_number, rf_rssi |-> None,
     zones |-> NewZones, connection_state |-> None, device_state |-> None,
     hub_device_name |-> props.hub_device_name,
     hub_product_key |-> props.hub_product_key]

\* obj.name = value, which creates the attribute when the object has none
SetAttr(obj, name, value) ==
    [a \in DOMAIN obj \cup {name} |-> IF a = name THEN value ELSE obj[a]]

\* what a method call leaves: the object, and whether an exception came out
Done(obj) == [raised |-> FALSE, obj |-> obj]
Raise(obj) == [raised |-> TRUE, obj |-> obj]

-----------------------------------------------------------------------------
(* Stats values and temperatures *)

NoStats == <<None, None, None, None>>

\* the groups of a match with day_max and day_min exchanged
StatsOfSwapped(head, groups) ==
    IF IsDecimal(head) /\ Len(groups) = 3 /\ \A i \in 1..3 : IsDecimal(groups[i])
    THEN << Some(DecFold(head, 0)), Some(DecFold(groups[2], 0)),
            Some(DecFold(groups[1], 0)), Some(DecFold(groups[3], 0)) >>
    ELSE NoStats

\* the four groups of a match as numbers
StatsOf(head, groups) ==
    IF IsDecimal(head) /\ Len(groups) = 3 /\ \A i \in 1..3 : IsDecimal(groups[i])
    THEN << Some(DecFold(head, 0)), Some(DecFold(groups[1], 0)),
            Some(DecFold(groups[2], 0)), Some(DecFold(groups[3], 0)) >>
    ELSE NoStats

StatsAt(s, open) ==
    IF open < 1 \/ Len(s) < open + 2 \/ SliceFrom(s, Len(s) - 1) # ")"
    THEN NoStats
    ELSE StatsOf(Slice(s, 0, open), Split(Slice(s, open + 1, Len(s) - 1), "/"))

\* STATS_VALUE_REGEX.fullmatch(s): digits "(" digits "/" digits "/" digits ")"
_parse_stats_value(s) == StatsAt(s, Find(s, "("))

\* the conversion with the fraction cut off
_temp_to_mk_floor(f) == (500 * f + 2298350) \div 9

\* round(1000 * ((f * .1 - 32) * 5 / 9 + 273.15)) for an int f: the value is
\* (500 f + 2298350) / 9, which is never half-way between two integers
_temp_to_mk(f) == (2 * (500 * f + 2298350) + 9) \div 18

-----------------------------------------------------------------------------
(* Device objects; model, name and alerts are left out *)

NewHomgarDevice(cls, props) ==
    [cls |-> cls, model_code |-> props.model_code, did |-> props.did,
     mid |-> props.mid, address |-> None, rf_rssi |-> None]

\* HomgarHubDevice.__init__
NewHub(cls, props) ==
    [a \in DOMAIN NewHomgarDevice(cls, props)
           \cup {"subdevices", "hub_device_name", "hub_product_key"} |->
        CASE a = "address" -> 1
          [] a = "subdevices" -> <<>>
          [] a = "hub_device_name" -> props.hub_device_name
          [] a = "hub_product_key" -> props.hub_product_key
          [] OTHER -> NewHomgarDevice(cls, props)[a]]

\* HomgarSubDevice.__init__
NewSubDevice(cls, props) ==
    [a \in DOMAIN NewHomgarDevice(cls, props) \cup {"port_number"} |->
        CASE a = "address" -> props.address
          [] a = "port_number" -> props.port_number
          [] OTHER -> NewHomgarDevice(cls, props)[a]]

\* obj with the attributes of names added, each None
WithNone(obj, names) ==
    [a \in DOMAIN obj \cup names |-> IF a \in DOMAIN obj THEN obj[a] ELSE None]

TempFields == {"temp_mk_current", "temp_mk_daily_max", "temp_mk_daily_min", "temp_trend"}
HumFields == {"hum_current", "hum_daily_max", "hum_daily_min", "hum_trend"}
PressFields ==
    {"press_pa_current", "press_pa_daily_max", "press_pa_daily_min", "press_trend"}

\* the constructor of the class MODEL_CODE_MAPPING gives, or of cls itself
NewDevice(cls, props) ==
    CASE cls = "RainPointDisplayHub" ->
            WithNone(NewHub(cls, props),
                     {"wifi_rssi", "battery_state", "connected"}
                     \cup TempFields \cup HumFields \cup PressFields)
      [] cls = "RainPointSoilMoistureSensor" ->
            WithNone(NewSubDevice(cls, props),
                     {"temp_mk_current", "moist_percent_current", "light_lux_current"})
      [] cls = "RainPointRainSensor" ->
            WithNone(NewSubDevice(cls, props),
                     {"rainfall_mm_total", "rainfall_mm_hour", "rainfall_mm_daily"})
      [] cls = "RainPointAirSensor" ->
            WithNone(NewSubDevice(cls, props), TempFields \cup HumFields)
      [] cls = "RainPoint2ZoneTimer" -> NewSubDevice(cls, props)
      [] cls = "DiivooWT11W" -> NewDiivooWT11W(props)
      [] cls \in {"HWG0538WRF", "HomgarHubDevice"} -> NewHub(cls, props)

ModelCodes == {264, 72, 87, 262, 261, 271, 256}

MODEL_CODE_MAPPING(code) ==
    CASE code = 264 -> "RainPointDisplayHub"
      [] code = 72 -> "RainPointSoilMoistureSensor"
      [] code = 87 -> "RainPointRainSensor"
      [] code = 262 -> "RainPointAirSensor"
      [] code = 261 -> "RainPoint2ZoneTimer"
      [] code = 271 -> "DiivooWT11W"
      [] code = 256 -> "HWG0538WRF"

get_device_status_ids(obj) ==
    CASE obj.cls = "RainPointDisplayHub" -> <<"connected", "state", "D01">>
      [] obj.cls = "DiivooWT11W" -> <<StatusId(obj.address), "connected", "state">>
      [] obj.cls \in {"HomgarHubDevice", "HWG0538WRF"} -> <<>>
      [] OTHER -> <<StatusId(obj.address)>>

-----------------------------------------------------------------------------
(* HomgarDevice and its sensor subclasses: a status record applied *)

\* obj with the four attributes of names (current, daily max, daily min, trend)
\* set to the four values
SetFour(obj, names, values) ==
    [a \in DOMAIN obj |->
        IF a \notin names THEN obj[a]
        ELSE CASE a \in {"temp_mk_current", "hum_current", "press_pa_current",
                         "rainfall_mm_total"} -> values[1]
               [] a \in {"temp_mk_daily_max", "hum_daily_max", "press_pa_daily_max",
                         "rainfall_mm_hour"} -> values[2]
               [] a \in {"temp_mk_daily_min", "hum_daily_min", "press_pa_daily_min",
                         "rainfall_mm_daily"} -> values[3]
               [] OTHER -> values[4]]

\* [_temp_to_mk(v) for v in stats]: int(None) raises TypeError
TempStatsOf(obj, stats) ==
    IF stats = NoStats THEN Raise(obj)
    ELSE Done(SetFour(obj, TempFields,
                      [i \in 1..4 |-> Some(_temp_to_mk(stats[i][1]))]))

TempStats(obj, temp_str) == TempStatsOf(obj, _parse_stats_value(temp_str))

\* the humidity and pressure assignments, made once the temperatures are
RainPointDisplayHub_hum_press(t, hum_str, press_str) ==
    IF t.raised THEN t
    ELSE Done(SetFour(SetFour(t.obj, HumFields, _parse_stats_value(hum_str)),
                      PressFields, _parse_stats_value(SliceFrom(press_str, 2))))

\* temp_str, hum_str, press_str, *_ = s.split(',')
RainPointDisplayHub_fields(obj, parts) ==
    IF Len(parts) < 3 THEN Raise(obj)
    ELSE RainPointDisplayHub_hum_press(TempStats(obj, parts[1]), parts[2], parts[3])

RainPointDisplayHub_parse_specific(obj, s) ==
    RainPointDisplayHub_fields(obj, Split(s, ","))

RainPointAirSensor_hum(t, hum_str) ==
    IF t.raised THEN t
    ELSE Done(SetFour(t.obj, HumFields, _parse_stats_value(hum_str)))

\* temp_str, hum_str, *_ = s.split(',')
RainPointAirSensor_fields(obj, parts) ==
    IF Len(parts) < 2 THEN Raise(obj)
    ELSE RainPointAirSensor_hum(TempStats(obj, parts[1]), parts[2])

RainPointAirSensor_parse_specific(obj, s) ==
    RainPointAirSensor_fields(obj, Split(s, ","))

\* the three assignments in turn: one that raises leaves the earlier ones made;
\* light_lux_current is kept in tenths of a lux
RainPointSoilMoistureSensor_ints(obj, temp, moist, light) ==
    IF ~temp.ok THEN Raise(obj)
    ELSE IF ~moist.ok
    THEN Raise([obj EXCEPT !.temp_mk_current = Some(_temp_to_mk(temp.v))])
    ELSE IF ~light.ok
    THEN Raise([obj EXCEPT !.temp_mk_current = Some(_temp_to_mk(temp.v)),
                           !.moist_percent_current = Some(moist.v)])
    ELSE Done([obj EXCEPT !.temp_mk_current = Some(_temp_to_mk(temp.v)),
                          !.moist_percent_current = Some(moist.v),
                          !.light_lux_current = Some(light.v)])

\* temp_str, moist_str, light_str = s.split(',')
RainPointSoilMoistureSensor_fields(obj, parts) ==
    IF Len(parts) # 3 THEN Raise(obj)
    ELSE RainPointSoilMoistureSensor_ints(obj, IntBase10(parts[1]),
                                          IntBase10(parts[2]),
                                          IntBase10(SliceFrom(parts[3], 2)))

RainPointSoilMoistureSensor_parse_specific(obj, s) ==
    RainPointSoilMoistureSensor_fields(obj, Split(s, ","))

\* [.1 * v for v in stats]: .1 * None raises TypeError; the values are kept in
\* tenths of a millimetre; rainfall_mm_7days is created by the assignment
RainPointRainSensor_stats(obj, stats) ==
    IF stats = NoStats THEN Raise(obj)
    ELSE Done(SetFour(SetAttr(obj, "rainfall_mm_7days", None),
                      {"rainfall_mm_total", "rainfall_mm_hour",
                       "rainfall_mm_daily", "rainfall_mm_7days"}, stats))

RainPointRainSensor_parse_specific(obj, s) ==
    RainPointRainSensor_stats(obj, _parse_stats_value(SliceFrom(s, 2)))

_parse_device_specific_status_d_value(obj, s) ==
    CASE obj.cls = "RainPointDisplayHub" -> RainPointDisplayHub_parse_specific(obj, s)
      [] obj.cls = "RainPointAirSensor" -> RainPointAirSensor_parse_specific(obj, s)
      [] obj.cls = "RainPointSoilMoistureSensor" ->
            RainPointSoilMoistureSensor_parse_specific(obj, s)
      [] obj.cls = "RainPointRainSensor" -> RainPointRainSensor_parse_specific(obj, s)
      [] OTHER -> Done(obj)

\* _, rf_rssi, _ = s.split(','); self.rf_rssi = int(rf_rssi)
GeneralFields(obj, parts) ==
    IF Len(parts) # 3 \/ ~IntBase10(parts[2]).ok THEN Raise(obj)
    ELSE Done([obj EXCEPT !.rf_rssi = Some(IntBase10(parts[2]).v)])

_parse_general_status_d_value(obj, s) == GeneralFields(obj, Split(s, ","))

\* the device-specific part, parsed unless the general part raised
SpecificAfterGeneral(g, specific_str) ==
    IF g.raised THEN g
    ELSE _parse_device_specific_status_d_value(g.obj, specific_str)

\* general_str, specific_str = val.split(';')
StatusParts(obj, parts) ==
    IF Len(parts) # 2 THEN Raise(obj)
    ELSE SpecificAfterGeneral(_parse_general_status_d_value(obj, parts[1]), parts[2])

_parse_status_d_value(obj, val) == StatusParts(obj, Split(val, ";"))

\* HomgarDevice.set_device_status with the test of the record id left out
HomgarDevice_set_any_id(obj, api_obj) == _parse_status_d_value(obj, api_obj.value)

HomgarDevice_set_device_status(obj, api_obj) ==
    IF api_obj.id = StatusId(obj.address)
    THEN _parse_status_d_value(obj, api_obj.value)
    ELSE Done(obj)

\* self.battery_state, self.wifi_rssi = [int(s) for s in val.split(',')]
RainPointDisplayHub_state(obj, parts) ==
    IF Len(parts) = 2 /\ IntBase10(parts[1]).ok /\ IntBase10(parts[2]).ok
    THEN Done([obj EXCEPT !.battery_state = Some(IntBase10(parts[1]).v),
                          !.wifi_rssi = Some(IntBase10(parts[2]).v)])
    ELSE Raise(obj)

\* self.connected = int(val) == 1
RainPointDisplayHub_connected(obj, val) ==
    IF val.ok THEN Done([obj EXCEPT !.connected = Some(val.v = 1)])
    ELSE Raise(obj)

RainPointDisplayHub_set_device_status(obj, api_obj) ==
    IF api_obj.id = "state"
    THEN RainPointDisplayHub_state(obj, Split(api_obj.value, ","))
    ELSE IF api_obj.id = "connected"
    THEN RainPointDisplayHub_connected(obj, IntBase10(api_obj.value))
    ELSE HomgarDevice_set_device_status(obj, api_obj)

-----------------------------------------------------------------------------
(* DiivooWT11W: a status record applied to the object *)

\* self.sequence = hex_data[2:8]
WithSequence(obj, hex_data) ==
    IF Len(hex_data) >= 8 THEN SetAttr(obj, "sequence", Slice(hex_data, 2, 8))
    ELSE obj

\* the three parsers in turn on self.zones
WithZones(obj, hex_data) ==
    [obj EXCEPT !.zones =
        _parse_duration_settings_precise(
            _parse_countdown_timers_precise(
                _parse_port_statuses_precise(@, hex_data), hex_data), hex_data)]

\* raised is FALSE on every path: the method calls only the three parsers
\* above, which catch the ValueError of int(x, 16) themselves
_parse_hex_status_data(obj, hex_data) ==
    IF Len(hex_data) < 50 THEN Done(obj)
    ELSE Done(WithZones(WithSequence(obj, hex_data), hex_data))

\* the method without its two format checks: parts[1] raises IndexError
\* when the value has no '#'
DiivooWT11W_parse_unchecked(obj, s) ==
    LET o1 == SetAttr(obj, "raw_status", s)
        parts == Split(s, "#")
    IN  IF Len(parts) < 2
        THEN [raised |-> TRUE, obj |-> o1]
        ELSE LET o2 == SetAttr(o1, "hex_status_data", parts[2])
             IN  [raised |-> FALSE, obj |-> _parse_hex_status_data(o2, parts[2]).obj]

\* the try block around _parse_hex_status_data
DiivooWT11W_tried(r) ==
    IF r.raised THEN Done(SetAttr(r.obj, "parse_error", "error"))
    ELSE Done(r.obj)

\* parts = s.split('#') and what follows
DiivooWT11W_parts(obj, parts) ==
    IF Len(parts) < 2 THEN Done(obj)
    ELSE DiivooWT11W_tried(
            _parse_hex_status_data(SetAttr(obj, "hex_status_data", parts[2]),
                                   parts[2]))

DiivooWT11W_parse_device_specific_status_d_value(obj, s) ==
    IF ~Contains(s, "#") THEN Done(SetAttr(obj, "raw_status", s))
    ELSE DiivooWT11W_parts(SetAttr(obj, "raw_status", s), Split(s, "#"))

\* self.connection_state = int(val) == 1
DiivooWT11W_connected(obj, val) ==
    IF val.ok THEN Done([obj EXCEPT !.connection_state = Some(val.v = 1)])
    ELSE Raise(obj)

DiivooWT11W_set_device_status(obj, api_obj) ==
    IF api_obj.id = "connected"
    THEN DiivooWT11W_connected(obj, IntBase10(api_obj.value))
    ELSE IF api_obj.id = "state"
    THEN Done([obj EXCEPT !.device_state = Some(api_obj.value)])
    ELSE IF api_obj.id = StatusId(obj.address)
    THEN DiivooWT11W_parse_device_specific_status_d_value(obj, api_obj.value)
    ELSE Done(obj)

-----------------------------------------------------------------------------
(* The decoder methods called one by one on a DiivooWT11W at address 5 *)

TimerProps ==
    [model_code |-> 271, did |-> 7, mid |-> 10, address |-> 5, port_number |-> 3,
     hub_device_name |-> "MAC-1", hub_product_key |-> "pk"]

NoRecord == [id |-> "", value |-> ""]

\* what the clock shows when the program starts, a day after 1970-01-01 00:00
ClockStart == 86400

\* a thread that is in no call
Idle == [op |-> "", pc |-> "idle", ret |-> None, events |-> <<>>, local |-> <<>>]

\* HomgarDataUpdateCoordinator.__init__; task is the renewal task, shutdown
\* the step async_shutdown is at and update the step _async_update_data is
\* at, with hub the hub it polls next. objects names the device objects that
\* self.devices holds and polled those the update under way has built, 0 for
\* none: two lists of equal devices may be different objects. entities names
\* the objects that the entities of the platforms were constructed with
NewCoordinator ==
    [devices |-> <<>>, mqtt_connected |-> FALSE, mqtt_subscribed |-> FALSE,
     task |-> "none", shutdown |-> "none", update |-> "idle", hub |-> 0,
     objects |-> 0, polled |-> 0, entities |-> 0]

\* HomgarApi.__init__: the fields of the push channel, with callers the
\* threads that will call its methods
InitPush(callers) ==
    /\ subscription_data = None
    /\ mqtt_client = None
    /\ mqtt_connected = FALSE
    /\ status_callbacks = <<>>
    /\ _subscription_devices = <<>>
    /\ _subscription_hids = <<>>
    /\ _mqtt_lock = None
    /\ clients = <<>>
    /\ threads = [t \in callers |-> Idle]
    /\ history = [subscribed |-> None, renewed |-> FALSE, message |-> None]
    /\ coordinator = NewCoordinator

\* HomgarApi.__init__ without an auth cache, and no hub fetched yet
InitApi ==
    /\ InitPush({})
    /\ now = ClockStart
    /\ cache = <<>>
    /\ homes = <<>>
    /\ hubs = <<>>
    /\ poll = [active |-> FALSE, hub |-> 0, skipped |-> FALSE]
    /\ last = [op |-> "__init__", rec |-> NoRecord, target |-> None,
               raised |-> FALSE, pre |-> <<>>]
    /\ reply = [exc |-> None, ret |-> None, sent |-> <<>>, got |-> None,
                cache |-> <<>>]

InitTags ==
    /\ timer = NewDiivooWT11W(TimerProps)
    /\ call = [method |-> "__init__", arg |-> "", zones |-> NewZones]
    /\ InitApi

ParsePortStatuses(hex_data) ==
    /\ timer' = [timer EXCEPT
                   !.zones = _parse_port_statuses_precise(timer.zones, hex_data)]
    /\ call' = [method |-> "_parse_port_statuses_precise", arg |-> hex_data,
                zones |-> timer.zones]
    /\ UNCHANGED apiVars

ParseCountdownTimers(hex_data) ==
    /\ timer' = [timer EXCEPT
                   !.zones = _parse_countdown_timers_precise(timer.zones, hex_data)]
    /\ call' = [method |-> "_parse_countdown_timers_precise", arg |-> hex_data,
                zones |-> timer.zones]
    /\ UNCHANGED apiVars

ParseDurationSettings(hex_data) ==
    /\ timer' = [timer EXCEPT
                   !.zones = _parse_duration_settings_precise(timer.zones, hex_data)]
    /\ call' = [method |-> "_parse_duration_settings_precise", arg |-> hex_data,
                zones |-> timer.zones]
    /\ UNCHANGED apiVars

NextTags ==
    \/ \E h \in HexStreams : ParsePortStatuses(h)
    \/ \E h \in HexStreams : ParseCountdownTimers(h)
    \/ \E h \in HexStreams : ParseDurationSettings(h)

SpecTags == InitTags /\ [][NextTags]_vars

-----------------------------------------------------------------------------
(* Status records applied to a DiivooWT11W at address 5 *)

TimerRecords ==
    { [id |-> "D05", value |-> v] : v \in TimerValues }
    \cup { [id |-> "D06", value |-> PollPrefix \o OffFrame] }

InitDiivoo ==
    /\ timer = NewDiivooWT11W(TimerProps)
    /\ call = [method |-> "__init__", arg |-> "", zones |-> NewZones]
    /\ InitApi

\* timer.set_device_status(api_obj) has left r
TimerStatusSet(api_obj, r) ==
    /\ timer' = r.obj
    /\ call' = [method |-> "set_device_status", arg |-> api_obj,
                zones |-> timer.zones, rf_rssi |-> timer.rf_rssi,
                raised |-> r.raised]
    /\ UNCHANGED apiVars

SetTimerStatus(api_obj) ==
    TimerStatusSet(api_obj, DiivooWT11W_set_device_status(timer, api_obj))

NextDiivoo == \E api_obj \in TimerRecords : SetTimerStatus(api_obj)

SpecDiivoo == InitDiivoo /\ [][NextDiivoo]_vars

\* streams whose counters carry a sign in the place of a digit
SignedFrame == FillBlock \o "19D821" \o "21B7-0000001" \o "25AD-00A"

PlusFrame == FillBlock \o "1AD820" \o "22B7+000001F" \o "26AD+01F"

\* status records of the timer, with counters well formed, signed and cut
ZoneRecords ==
    { [id |-> "D05", value |-> PollPrefix \o h] :
        h \in { DocFrame, FillBlock \o OffFrame, SignedFrame, PlusFrame,
                FillBlock \o "1BD8FF" \o "23B79AE7DEXY" \o "27ADDC0" } }
    \cup { [id |-> "connected", value |-> "1"], [id |-> "state", value |-> "2"] }

InitZones == InitDiivoo

NextZones == \E api_obj \in ZoneRecords : SetTimerStatus(api_obj)

SpecZones == InitZones /\ [][NextZones]_vars

-----------------------------------------------------------------------------
(* HomgarApi: what the server answers *)

\* the envelopes with a code other than 0, around the data given
Refusals(data) ==
    { [code |-> 1004, msg |-> "token invalid", data |-> data],
      [code |-> -1, data |-> data] }

\* the seconds a token lasts
TokenLife == 7200

LoginResponses ==
    { [code |-> 0, msg |-> "ok",
       data |-> [token |-> "tok", tokenExpired |-> TokenLife,
                 refreshToken |-> "ref"]] }
    \cup Refusals([token |-> "none", tokenExpired |-> 0, refreshToken |-> "none"])

HomeResponses ==
    { [code |-> 0, data |-> <<[hid |-> "H1", homeName |-> "Home"]>>] }
    \cup Refusals(<<[hid |-> "H2", homeName |-> "Nobody"]>>)

SubData(code, did, addr) ==
    [modelCode |-> code, did |-> did, mid |-> 10, addr |-> addr, portNumber |-> 3]

HubData(code, subs) ==
    [modelCode |-> code, did |-> 100, mid |-> 10, deviceName |-> "MAC-1",
     productKey |-> "pk", subDevices |-> subs]

\* a display hub with its own unit (did 1) and an air sensor
DisplayListing == << HubData(264, <<SubData(264, 1, 1), SubData(262, 4, 4)>>) >>

\* a gateway with a rain sensor, a 2-zone timer and a device of an unknown model
GatewayListing ==
    << HubData(256, <<SubData(87, 3, 3), SubData(261, 6, 6), SubData(999, 9, 9)>>) >>

\* a hub of an unknown model with one irrigation timer
IrrigationListing == << HubData(300, <<SubData(271, 7, 5)>>) >>

\* a hub of an unknown model with two sensors at one address
SharedAddressListing ==
    << HubData(300, <<SubData(87, 3, 2), SubData(72, 2, 2)>>) >>

DeviceResponses ==
    { [code |-> 0, data |-> l] :
        l \in {DisplayListing, GatewayListing, IrrigationListing,
               SharedAddressListing} }
    \cup Refusals(DisplayListing)

ControlResponses ==
    { [code |-> 0, msg |-> "ok", data |-> [state |-> 1]] }
    \cup Refusals([state |-> 0])

\* the envelope of a getDeviceStatus answer; the records of a good one are
\* drawn one by one while the loop over them runs
StatusEnvelopes == {"records", "no subDeviceStatus", "error code"}

RecordsOf(id, values) == { [id |-> id, value |-> v] : v \in values }

\* the records addressed to a device by its 'Dxx' id
AddressRecords ==
    RecordsOf("D01", HubValues)
    \cup RecordsOf("D02", SoilValues) \cup RecordsOf("D03", RainValues)
    \cup RecordsOf("D04", AirValues) \cup RecordsOf("D05", IrrigationValues)
    \cup RecordsOf("D06", ZoneTimerValues) \cup RecordsOf("D09", {"1,-40,1;0"})

\* the records set_device_status is called with outside get_device_status
PushedRecords ==
    { [id |-> "D01", value |-> "1,0,1;781(781/723/1),52(64/50/1),P=10213(10222/10205/1),"],
      [id |-> "D02", value |-> "1,-58,1;766,52,G=31351"],
      [id |-> "D04", value |-> "1,-61,1;755(1020/588/1),54(91/24/1),"],
      [id |-> "D05", value |-> PollPrefix \o DocFrame],
      [id |-> "D06", value |-> "1,-50,1;0,9,0"] }

StatusRecords ==
    AddressRecords \cup RecordsOf("connected", {"1", "x"})
    \cup RecordsOf("state", {"0,-15"})

-----------------------------------------------------------------------------
(* HomgarApi: login, homes, device tree and the status poll *)

set_device_status(obj, api_obj) ==
    CASE obj.cls = "DiivooWT11W" -> DiivooWT11W_set_device_status(obj, api_obj)
      [] obj.cls = "RainPointDisplayHub" ->
            RainPointDisplayHub_set_device_status(obj, api_obj)
      [] OTHER -> HomgarDevice_set_device_status(obj, api_obj)

\* a device of the tree: <<h, 0>> is hub h, <<h, i>> its i-th subdevice
DeviceAt(tree, pos) ==
    IF pos[2] = 0 THEN tree[pos[1]] ELSE tree[pos[1]].subdevices[pos[2]]

WithDeviceAt(tree, pos, obj) ==
    IF pos[2] = 0 THEN [tree EXCEPT ![pos[1]] = obj]
    ELSE [tree EXCEPT ![pos[1]].subdevices[pos[2]] = obj]

Positions(tree) ==
    UNION { { <<h, i>> : i \in 0..Len(tree[h].subdevices) } : h \in 1..Len(tree) }

\* device.get_device_status_ids() holds id, for the i-th of [hub, *hub.subdevices]
ListsId(tree, h, i, id) ==
    \E k \in 1..Len(get_device_status_ids(DeviceAt(tree, <<h, i>>))) :
        get_device_status_ids(DeviceAt(tree, <<h, i>>))[k] = id

Owners(tree, h, id) ==
    {i \in 0..Len(tree[h].subdevices) : ListsId(tree, h, i, id)}

\* the entry of id_map for an id that the devices of owners list: the dict
\* comprehension keeps the last one
LastOwner(h, owners) ==
    IF owners = {} THEN None
    ELSE Some(<<h, CHOOSE i \in owners : \A j \in owners : j <= i>>)

\* id_map.get(id): None where no device lists the id
IdMapGet(tree, h, id) == LastOwner(h, Owners(tree, h, id))

DeviceProps(dev_data, hub_data) ==
    [model_code |-> dev_data.modelCode, did |-> dev_data.did, mid |-> dev_data.mid,
     address |-> IF "addr" \in DOMAIN dev_data THEN dev_data.addr ELSE None,
     port_number |-> IF "portNumber" \in DOMAIN dev_data
                     THEN dev_data.portNumber ELSE None,
     hub_device_name |-> hub_data.deviceName,
     hub_product_key |-> hub_data.productKey]

\* the loop over hub_data['subDevices']
RECURSIVE Subdevices(_, _)
Subdevices(hub_data, subs) ==
    IF subs = <<>> THEN <<>>
    ELSE LET d == Head(subs)
         IN  IF d.did = 1 \/ d.modelCode \notin ModelCodes
             THEN Subdevices(hub_data, Tail(subs))
             ELSE << NewDevice(MODEL_CODE_MAPPING(d.modelCode),
                               DeviceProps(d, hub_data)) >>
                  \o Subdevices(hub_data, Tail(subs))

HubOf(hub_data) ==
    LET cls == IF hub_data.modelCode \in ModelCodes
               THEN MODEL_CODE_MAPPING(hub_data.modelCode) ELSE "HomgarHubDevice"
    IN  [NewDevice(cls, DeviceProps(hub_data, hub_data)) EXCEPT
            !.subdevices = Subdevices(hub_data, hub_data.subDevices)]

Called(op, raised) ==
    [op |-> op, rec |-> NoRecord, target |-> None, raised |-> raised, pre |-> hubs]

\* _request with_auth reads cache["token"]: KeyError without a login
HasToken == "token" \in DOMAIN cache

\* code != 0 for a code that is a number
RefusedWhenPositive(response) == response.code > 0

\* _request_json: a code other than 0 raises HomgarApiException
Refused(response) == response.code # 0

\* d.get(key)
Get(d, key) == IF key \in DOMAIN d THEN Some(d[key]) ELSE None

HomgarApiException(code, msg) ==
    [cls |-> "HomgarApiException", code |-> code, msg |-> msg]

KeyError(key) == [cls |-> "KeyError", key |-> key]

Request(method, path, body) == [method |-> method, path |-> path, body |-> body]

\* _request_json: exc is the exception it raises, if any, data the data it
\* returns, sent the requests that went out, got the answers that came in
_request_json(method, path, body, with_auth, response) ==
    IF with_auth /\ ~HasToken
    THEN [exc |-> Some(KeyError("token")), data |-> None, sent |-> <<>>,
          got |-> <<>>]
    ELSE IF Refused(response)
    THEN [exc |-> Some(HomgarApiException(Get(response, "code"),
                                          Get(response, "msg"))),
          data |-> None, sent |-> <<Request(method, path, body)>>,
          got |-> <<response>>]
    ELSE [exc |-> None, data |-> Get(response, "data"),
          sent |-> <<Request(method, path, body)>>, got |-> <<response>>]

\* the call raises the exception of r
Raises(r) ==
    [exc |-> r.exc, ret |-> None, sent |-> r.sent, got |-> r.got, cache |-> cache]

\* the call returns value after the requests of r
Returns(r, value) ==
    [exc |-> None, ret |-> Some(value), sent |-> r.sent, got |-> r.got,
     cache |-> cache]

CalledWith(op, raised, arg) ==
    [op |-> op, rec |-> NoRecord, target |-> None, raised |-> raised,
     pre |-> hubs, arg |-> arg, at |-> now]

\* the local time zone is one hour east of UTC, and two hours from DstStart on
StdOffset == 3600

DstOffset == 7200

\* the instant, in seconds since the epoch, at which the local clocks go forward
DstStart == ClockStart + 7200

\* the offset of local time from UTC at an instant
utcoffset(instant) == IF instant < DstStart THEN StdOffset ELSE DstOffset

\* datetime.fromtimestamp(t): the local date and time at the instant t,
\* without a zone
fromtimestamp(t) == t + utcoffset(t)

\* d.timestamp() for d without a zone: d is read as local time, and a time
\* that the clocks skip is read with the offset before the change
timestamp(d) ==
    IF d < DstStart + DstOffset THEN d - StdOffset ELSE d - DstOffset

TypeError == [cls |-> "TypeError"]

\* d[key] = value for the dict d
DictWith(d, key, value) ==
    [k \in DOMAIN d \cup {key} |-> IF k = key THEN value ELSE d[k]]

\* login, called as op, after _post_json has left r: the four assignments to
\* self.cache in turn. data.get raises AttributeError when the answer has no
\* data, and the sum for token_expires TypeError when it has no tokenExpired
LoginDone(op, email, r) ==
    IF r.exc # None
    THEN /\ cache' = cache
         /\ last' = CalledWith(op, TRUE, email)
         /\ reply' = Raises(r)
    ELSE IF r.data = None
    THEN /\ cache' = DictWith(cache, "email", email)
         /\ last' = CalledWith(op, TRUE, email)
         /\ reply' = [Raises(r) EXCEPT !.exc = Some([cls |-> "AttributeError"])]
    ELSE IF "tokenExpired" \notin DOMAIN r.data[1]
    THEN /\ cache' = DictWith(DictWith(cache, "email", email), "token",
                              r.data[1].token)
         /\ last' = CalledWith(op, TRUE, email)
         /\ reply' = [Raises(r) EXCEPT !.exc = Some(TypeError)]
    ELSE /\ cache' = [email |-> email, token |-> r.data[1].token,
                      token_expires |-> timestamp(now) + r.data[1].tokenExpired,
                      refresh_token |-> r.data[1].refreshToken]
         /\ last' = CalledWith(op, FALSE, email)
         /\ reply' = Returns(r, None)

LoggedIn(email, r) == LoginDone("login", email, r)

login(email, response) ==
    /\ ~poll.active
    /\ LoggedIn(email, _request_json("POST", "/auth/basic/app/login",
                                     [phoneOrEmail |-> email], FALSE, response))
    /\ UNCHANGED <<now, homes, hubs, poll, decoderVars, pushVars>>

HomgarHomes(data) ==
    [i \in 1..Len(data) |-> [hid |-> data[i].hid, name |-> data[i].homeName]]

\* get_homes after _get_json has left r; the caller keeps the list returned,
\* and a call that raises returns none
HomesGot(r) ==
    IF r.exc # None
    THEN /\ homes' = homes
         /\ last' = Called("get_homes", TRUE)
         /\ reply' = Raises(r)
    ELSE /\ homes' = HomgarHomes(r.data[1])
         /\ last' = Called("get_homes", FALSE)
         /\ reply' = Returns(r, HomgarHomes(r.data[1]))

get_homes(response) ==
    /\ ~poll.active
    /\ HomesGot(_request_json("GET", "/app/member/appHome/list", None, TRUE,
                              response))
    /\ UNCHANGED <<now, cache, hubs, poll, decoderVars, pushVars>>

\* the loop over data
Hubs(data) == [i \in 1..Len(data) |-> HubOf(data[i])]

\* the classes whose constructor requires the argument subdevices
HubClasses == {"HomgarHubDevice", "RainPointDisplayHub", "HWG0538WRF"}

\* subdevice_class(**subdevice_props) raises TypeError: the props of a
\* subdevice have no 'subdevices'
MissingSubdevices(d) ==
    /\ d.did # 1
    /\ d.modelCode \in ModelCodes
    /\ MODEL_CODE_MAPPING(d.modelCode) \in HubClasses

\* the loop over data raises TypeError at some subdevice
ListingRaises(data) ==
    \E i \in 1..Len(data) : \E j \in 1..Len(data[i].subDevices) :
        MissingSubdevices(data[i].subDevices[j])

\* get_devices_for_hid after _get_json has left r; the caller keeps the list
\* returned, and a call that raises returns none
DevicesGot(r) ==
    IF r.exc # None
    THEN /\ hubs' = hubs
         /\ last' = Called("get_devices_for_hid", TRUE)
         /\ reply' = Raises(r)
    ELSE IF ListingRaises(r.data[1])
    THEN /\ hubs' = hubs
         /\ last' = Called("get_devices_for_hid", TRUE)
         /\ reply' = [Raises(r) EXCEPT !.exc = Some(TypeError)]
    ELSE /\ hubs' = Hubs(r.data[1])
         /\ last' = Called("get_devices_for_hid", FALSE)
         /\ reply' = Returns(r, Hubs(r.data[1]))

\* called with the hid of a home the caller holds
get_devices_for_hid(hid, response) ==
    /\ ~poll.active
    /\ \E i \in 1..Len(homes) : homes[i].hid = hid
    /\ DevicesGot(_request_json("GET", "/app/device/getDeviceByHid",
                                [hid |-> hid], TRUE, response))
    /\ UNCHANGED <<now, cache, homes, poll, decoderVars, pushVars>>

\* the answer to getDeviceStatus that has the envelope
StatusResponse(envelope) ==
    IF envelope = "error code"
    THEN [code |-> 1004, msg |-> "token invalid", data |-> [subDeviceStatus |-> <<>>]]
    ELSE [code |-> 0, msg |-> "ok", data |-> envelope]

\* get_device_status after _get_json has left r, up to the loop over
\* data['subDeviceStatus']
StatusGot(h, envelope, r) ==
    IF r.exc # None
    THEN /\ poll' = [active |-> FALSE, hub |-> h, skipped |-> FALSE]
         /\ last' = Called("get_device_status", TRUE)
         /\ reply' = Raises(r)
    ELSE IF envelope # "records"
    THEN /\ poll' = [active |-> FALSE, hub |-> h, skipped |-> FALSE]
         /\ last' = Called("get_device_status", TRUE)
         /\ reply' = [Raises(r) EXCEPT !.exc = Some(KeyError("subDeviceStatus"))]
    ELSE /\ poll' = [active |-> TRUE, hub |-> h, skipped |-> FALSE]
         /\ last' = Called("get_device_status", FALSE)
         /\ reply' = [exc |-> None, ret |-> None, sent |-> r.sent, got |-> r.got,
                      cache |-> cache]

get_device_status(h, envelope) ==
    /\ ~poll.active
    /\ h \in 1..Len(hubs)
    /\ StatusGot(h, envelope,
                 _request_json("GET", "/app/device/getDeviceStatus",
                               [mid |-> hubs[h].mid], TRUE,
                               StatusResponse(envelope)))
    /\ UNCHANGED <<now, cache, homes, hubs, decoderVars, pushVars>>

\* control_device_work_mode after _post_json has left r
WorkModeSet(r) ==
    /\ last' = Called("control_device_work_mode", r.exc # None)
    /\ reply' = IF r.exc # None THEN Raises(r) ELSE Returns(r, r.data[1])

control_device_work_mode(device_name, product_key, mid, addr, port, mode, duration, response) ==
    /\ ~poll.active
    /\ WorkModeSet(_request_json("POST", "/app/device/controlWorkMode",
                                 [deviceName |-> device_name,
                                  productKey |-> product_key, mid |-> mid,
                                  addr |-> addr, port |-> port, mode |-> mode,
                                  duration |-> duration, param |-> ""],
                                 TRUE, response))
    /\ UNCHANGED <<now, cache, homes, hubs, poll, decoderVars, pushVars>>

\* device.set_device_status(subdevice_status) has left r: an exception ends
\* get_device_status
RecordApplied(subdevice_status, pos, r) ==
    /\ hubs' = WithDeviceAt(hubs, pos, r.obj)
    /\ poll' = [poll EXCEPT !.active = ~r.raised]
    /\ last' = [op |-> "record", rec |-> subdevice_status, target |-> Some(pos),
                raised |-> r.raised, pre |-> hubs]

\* id_map[id] in place of id_map.get(id): KeyError for an id no device lists
RecordRoutedStrictly(subdevice_status, device) ==
    IF device = None
    THEN /\ hubs' = hubs
         /\ poll' = [poll EXCEPT !.active = FALSE]
         /\ last' = [op |-> "record", rec |-> subdevice_status, target |-> None,
                     raised |-> TRUE, pre |-> hubs]
    ELSE RecordApplied(subdevice_status, device[1],
                       set_device_status(DeviceAt(hubs, device[1]),
                                         subdevice_status))

\* if device is not None: device.set_device_status(subdevice_status)
RecordRouted(subdevice_status, device) ==
    IF device = None
    THEN /\ hubs' = hubs
         /\ poll' = [poll EXCEPT !.skipped = TRUE]
         /\ last' = [op |-> "record", rec |-> subdevice_status, target |-> None,
                     raised |-> FALSE, pre |-> hubs]
    ELSE RecordApplied(subdevice_status, device[1],
                       set_device_status(DeviceAt(hubs, device[1]),
                                         subdevice_status))

\* one turn of the loop over data['subDeviceStatus']
StatusRecord(subdevice_status) ==
    /\ poll.active
    /\ RecordRouted(subdevice_status,
                    IdMapGet(hubs, poll.hub, subdevice_status.id))
    /\ UNCHANGED <<now, cache, homes, reply, decoderVars, pushVars>>

\* the loop has run out of records and get_device_status returns
StatusDone ==
    /\ poll.active
    /\ poll' = [poll EXCEPT !.active = FALSE]
    /\ last' = Called("return", FALSE)
    /\ reply' = [reply EXCEPT !.ret = Some(None)]
    /\ UNCHANGED <<now, cache, homes, hubs, decoderVars, pushVars>>

\* the device at pos has run set_device_status(api_obj), which left r
StatusPushed(pos, api_obj, r) ==
    /\ hubs' = WithDeviceAt(hubs, pos, r.obj)
    /\ last' = [op |-> "set_device_status", rec |-> api_obj,
                target |-> Some(pos), raised |-> r.raised, pre |-> hubs]
    /\ reply' = [exc |-> IF r.raised THEN Some([cls |-> "Exception"]) ELSE None,
                 ret |-> IF r.raised THEN None ELSE Some(None),
                 sent |-> <<>>, got |-> <<>>, cache |-> cache]

\* set_device_status called on a device outside get_device_status, as the
\* coordinator does with the data of a push message
DeviceSetStatus(pos, api_obj) ==
    /\ ~poll.active
    /\ pos \in Positions(hubs)
    /\ StatusPushed(pos, api_obj, set_device_status(DeviceAt(hubs, pos), api_obj))
    /\ UNCHANGED <<now, cache, homes, poll, decoderVars, pushVars>>

Init ==
    /\ timer = NewDiivooWT11W(TimerProps)
    /\ call = [method |-> "__init__", arg |-> "", zones |-> NewZones]
    /\ InitApi

Next ==
    \/ \E response \in LoginResponses : login("user@example.com", response)
    \/ \E response \in HomeResponses : get_homes(response)
    \/ \E response \in DeviceResponses : get_devices_for_hid("H1", response)
    \/ \E h \in 1..Len(hubs), envelope \in StatusEnvelopes :
            get_device_status(h, envelope)
    \/ \E subdevice_status \in StatusRecords : StatusRecord(subdevice_status)
    \/ StatusDone
    \/ \E pos \in Positions(hubs), api_obj \in PushedRecords :
            DeviceSetStatus(pos, api_obj)
    \/ \E response \in ControlResponses :
            control_device_work_mode("MAC-1", "pk", 10, 5, 1, 1, 600, response)

Spec == Init /\ [][Next]_vars

-----------------------------------------------------------------------------
(* _parse_stats_value called on one string *)

\* the most digits of a group of a stats string
MaxDigits == 2

\* the strings of 1 to n digits over 0 and 4
RECURSIVE DigitStrings(_)
DigitStrings(n) ==
    IF n = 0 THEN {}
    ELSE {"0", "4"} \cup { d \o t : d \in {"0", "4"}, t \in DigitStrings(n - 1) }

\* what stands where a group of digits is expected
StatsGroups == DigitStrings(MaxDigits) \cup {"", "x"}

StatsTrends == DigitStrings(1) \cup {""}

\* what stands before the groups, between them and after them
StatsShapes ==
    { <<"", "(", "/", "/", ")", "">>,  <<"", "", "", "", "", "">>,
      <<"", "", "/", "/", ")", "">>,   <<"", "(", "/", "/", "", "">>,
      <<"", "(", ",", "/", ")", "">>,  <<"", "(", "/", "/", ")", ")">>,
      <<"", "(", "/", "/", ")", "x">>, <<"-", "(", "/", "/", ")", "">> }

StatsString(shape, head, day_max, day_min, trend) ==
    shape[1] \o head \o shape[2] \o day_max \o shape[3] \o day_min
    \o shape[4] \o trend \o shape[5] \o shape[6]

\* the strings _parse_stats_value is called with
StatsStrings ==
    { StatsString(shape, head, day_max, day_min, trend) :
        shape \in StatsShapes, head \in StatsGroups, day_max \in StatsGroups,
        day_min \in StatsGroups, trend \in StatsTrends }

InitStats ==
    /\ timer = NewDiivooWT11W(TimerProps)
    /\ \E s \in StatsStrings : call = [method |-> "", arg |-> s, result |-> NoStats]
    /\ InitApi

ParseStatsValue ==
    /\ call.method = ""
    /\ call' = [method |-> "_parse_stats_value", arg |-> call.arg,
                result |-> _parse_stats_value(call.arg)]
    /\ UNCHANGED <<timer, apiVars>>

NextStats == ParseStatsValue

SpecStats == InitStats /\ [][NextStats]_vars

-----------------------------------------------------------------------------
(* HomgarApi: ensure_logged_in while the clock runs *)

\* the seconds between two readings of the clock
ClockStep == 1800

\* the most readings of the clock after the first
MaxTicks == 8

\* timedelta(minutes=60), in seconds
RefreshMargin == 3600

Emails == {"user@example.com", "other@example.com"}

\* the auth_cache dicts the constructor is given: none, one saved by login,
\* one saved for another account, one without an expiry
AuthCaches ==
    { <<>>,
      [email |-> "user@example.com", token |-> "old",
       token_expires |-> ClockStart + 1800, refresh_token |-> "ref"],
      [email |-> "other@example.com", token |-> "old",
       token_expires |-> ClockStart + 1800, refresh_token |-> "ref"],
      [email |-> "user@example.com", token |-> "old"] }

\* self.cache.get('token_expires', 0)
TokenExpires == IF "token_expires" \in DOMAIN cache THEN cache.token_expires ELSE 0

\* the condition of ensure_logged_in
LoginNeeded(email, token_expires) ==
    \/ Get(cache, "email") # Some(email)
    \/ fromtimestamp(token_expires) - now < RefreshMargin

\* ensure_logged_in when needed tells whether it calls login, which leaves r
EnsuredLoggedIn(email, needed, r) ==
    IF needed
    THEN LoginDone("ensure_logged_in", email, r)
    ELSE /\ cache' = cache
         /\ last' = CalledWith("ensure_logged_in", FALSE, email)
         /\ reply' = [exc |-> None, ret |-> Some(None), sent |-> <<>>,
                      got |-> <<>>, cache |-> cache]

ensure_logged_in(email, response) ==
    /\ ~poll.active
    /\ EnsuredLoggedIn(email, LoginNeeded(email, TokenExpires),
                       _request_json("POST", "/auth/basic/app/login",
                                     [phoneOrEmail |-> email], FALSE, response))
    /\ UNCHANGED <<now, homes, hubs, poll, decoderVars, pushVars>>

\* time passes between two calls
Tick ==
    /\ now + ClockStep <= ClockStart + MaxTicks * ClockStep
    /\ now' = now + ClockStep
    /\ UNCHANGED <<cache, homes, hubs, poll, last, reply, decoderVars, pushVars>>

InitSession ==
    /\ timer = NewDiivooWT11W(TimerProps)
    /\ call = [method |-> "__init__", arg |-> "", zones |-> NewZones]
    /\ InitPush({})
    /\ now = ClockStart
    /\ cache \in AuthCaches
    /\ homes = <<>>
    /\ hubs = <<>>
    /\ poll = [active |-> FALSE, hub |-> 0, skipped |-> FALSE]
    /\ last = [op |-> "__init__", rec |-> NoRecord, target |-> None,
               raised |-> FALSE, pre |-> <<>>]
    /\ reply = [exc |-> None, ret |-> None, sent |-> <<>>, got |-> None,
                cache |-> <<>>]

NextSession ==
    \/ \E email \in Emails, response \in LoginResponses :
            ensure_logged_in(email, response)
    \/ Tick

SpecSession == InitSession /\ [][NextSession]_vars

\* answers to the login with the code 0 that lack the data or the lifetime
\* of the token
ShortLoginResponses ==
    { [code |-> 0, msg |-> "ok"],
      [code |-> 0, msg |-> "ok", data |-> [token |-> "new", refreshToken |-> "ref"]] }

\* logins of two accounts on an API object with an auth cache of any kind,
\* answered in full, refused and answered short
InitLogin == InitSession

NextLogin ==
    \/ \E email \in Emails, response \in LoginResponses \cup ShortLoginResponses :
            login(email, response)
    \/ \E email \in Emails, response \in LoginResponses \cup ShortLoginResponses :
            ensure_logged_in(email, response)

SpecLogin == InitLogin /\ [][NextLogin]_vars

-----------------------------------------------------------------------------
(* HomgarApi: get_devices_for_hid on the device trees of a home *)

\* the most subdevices of a hub
MaxSubs == 2

\* the subdevice entries of a listing: a rain sensor, a device of an unknown
\* model, the display hub's own unit, an irrigation timer, and a water timer
\* hub listed under another hub
SubEntries ==
    { SubData(87, 3, 3), SubData(999, 9, 9), SubData(264, 1, 1),
      SubData(271, 7, 5), SubData(256, 5, 5) }

RECURSIVE SubLists(_)
SubLists(n) ==
    IF n = 0 THEN {<<>>}
    ELSE SubLists(n - 1)
         \cup { <<d>> \o l : d \in SubEntries, l \in {x \in SubLists(n - 1) : Len(x) = n - 1} }

HubEntries == { HubData(code, subs) : code \in {264, 300}, subs \in SubLists(MaxSubs) }

\* a second gateway of the home
OtherHub == [HubData(256, <<SubData(261, 6, 6)>>) EXCEPT !.did = 101, !.mid = 11]

\* the device trees: no hub, one hub, and two hubs in either order
TreeResponses ==
    { [code |-> 0, msg |-> "ok", data |-> l] :
        l \in {<<>>} \cup { <<e>> : e \in HubEntries }
              \cup { <<e, OtherHub>> : e \in HubEntries }
              \cup { <<OtherHub, e>> : e \in HubEntries } }

\* a caller that logs in, fetches the homes and lists the devices of a home once
NextDevices ==
    \/ \E response \in LoginResponses : login("user@example.com", response)
    \/ \E response \in HomeResponses : get_homes(response)
    \/ /\ last.op = "get_homes"
       /\ \E response \in TreeResponses : get_devices_for_hid("H1", response)

SpecDevices == Init /\ [][NextDevices]_vars

-----------------------------------------------------------------------------
(* HomgarApi: the push channel. A call of subscribe_to_device_status,       *)
(* connect_mqtt, disconnect_mqtt or renew_subscription runs in the thread   *)
(* that makes it, step by step; threads[t].pc is the step thread t is at.   *)
(* paho-mqtt is installed, and a client whose network loop runs calls       *)
(* _on_mqtt_connect and _on_mqtt_disconnect from the thread of that loop.   *)

\* the milliseconds before its expiry at which a subscription counts as expired
RenewMargin == 300000

\* the port of a broker address without one
DefaultPort == 1883

\* the most paho clients created
MaxClients == 2

\* the most half hours the clock runs on
MaxWaits == 3

\* the most callbacks registered
MaxCallbacks == 2

\* the milliseconds a subscription lasts
SubscriptionLives == {2000000, 300000}

Descriptor(url, expire) ==
    [mqttHostUrl |-> url, deviceName |-> "dn", productKey |-> "pk",
     deviceSecret |-> "secret", expire |-> expire]

\* the data of a good subscribeStatus answer given at the time clock
Descriptors(clock) ==
    { Descriptor("broker:1883", clock * 1000 + life) : life \in SubscriptionLives }
    \cup { Descriptor(url, clock * 1000 + 2000000) : url \in {"broker", "broker:x", "a:b:c"} }
    \cup { [deviceName |-> "dn", productKey |-> "pk", deviceSecret |-> "secret",
            expire |-> clock * 1000 + 2000000],
           [mqttHostUrl |-> "broker:1883", deviceName |-> "dn",
            productKey |-> "pk", deviceSecret |-> "secret"] }

SubscribeResponses(clock) ==
    { [code |-> 0, msg |-> "ok", data |-> d] : d \in Descriptors(clock) }
    \cup { [code |-> 1004, msg |-> "token invalid", data |-> Descriptor("broker:1883", 0)] }

HubInfo(mid) == [deviceName |-> "MAC-1", mid |-> mid, productKey |-> "pk"]

\* the hid_list and devices subscribe_to_device_status is called with
Subscriptions ==
    { [hid_list |-> <<"H1">>, devices |-> <<HubInfo("10")>>],
      [hid_list |-> <<"H2", "H1">>, devices |-> <<HubInfo("10"), HubInfo("11")>>] }

\* a lock is taken by every thread that asks
CanAcquireAlways(lock) == TRUE

\* threading.Lock: acquire waits while another thread holds the lock
CanAcquire(lock) == lock = None

\* is_subscription_expired at the time clock
is_subscription_expired(data, clock) ==
    IF data = None THEN TRUE
    ELSE IF Get(data[1], "expire") \in {None, Some(0)} THEN TRUE
    ELSE data[1].expire - timestamp(clock) * 1000 <= RenewMargin

\* host, port = mqtt_url.split(':') and int(port), for the parts of mqtt_url
HostAndPort(parts) ==
    IF Len(parts) = 2 /\ IntBase10(parts[2]).ok
    THEN [ok |-> TRUE, host |-> parts[1], port |-> IntBase10(parts[2]).v]
    ELSE [ok |-> FALSE, host |-> "", port |-> 0]

\* an address that always has a host and a port
BrokerAddressLenient(mqtt_url) ==
    [ok |-> TRUE, host |-> mqtt_url, port |-> DefaultPort]

\* the broker address in mqtt_url: ok is FALSE where the code raises ValueError
BrokerAddress(mqtt_url) ==
    IF Contains(mqtt_url, ":")
    THEN HostAndPort(Split(mqtt_url, ":"))
    ELSE [ok |-> TRUE, host |-> mqtt_url, port |-> DefaultPort]

\* self.subscription_data.get('mqttHostUrl', '')
HostUrl(data) == IF "mqttHostUrl" \in DOMAIN data THEN data.mqttHostUrl ELSE ""

IsIdle(t) == threads[t].pc = "idle"

\* a thread enters the call op at the step pc
Start(op, pc, local) ==
    [op |-> op, pc |-> pc, ret |-> None, events |-> <<>>, local |-> local]

Event(th, e) == [th EXCEPT !.events = Append(@, e)]

At(th, pc) == [th EXCEPT !.pc = pc]

\* the call of th returns value
Finished(th, value) == [th EXCEPT !.pc = "idle", !.ret = Some(value)]

sessionVars == <<cache, homes, hubs, poll, last, reply, timer, call, coordinator>>

----
\* is_subscription_expired()
CallIsSubscriptionExpired(t) ==
    /\ IsIdle(t)
    /\ threads' = [threads EXCEPT ![t] =
            Finished(Event(Start("is_subscription_expired", "idle", <<>>),
                           [e |-> "asked", at |-> now]),
                     is_subscription_expired(subscription_data, now))]
    /\ UNCHANGED <<now, sessionVars, subscription_data, mqtt_client,
                   mqtt_connected, status_callbacks, _subscription_devices,
                   _subscription_hids, _mqtt_lock, clients, history>>

----
\* subscribe_to_device_status(hid, hid_list, devices) up to the request
CallSubscribe(t, hid, hid_list, devices) ==
    /\ IsIdle(t)
    /\ threads' = [threads EXCEPT ![t] =
            Start("subscribe_to_device_status", "post",
                  [hid |-> hid, hid_list |-> hid_list, devices |-> devices,
                   response |-> None])]
    /\ UNCHANGED <<now, sessionVars, subscription_data, mqtt_client,
                   mqtt_connected, status_callbacks, _subscription_devices,
                   _subscription_hids, _mqtt_lock, clients, history>>

Requests(th, r) ==
    IF r.sent = <<>> THEN th ELSE Event(th, [e |-> "request", request |-> r.sent[1]])

\* subscribe_to_device_status returns result; renew_subscription, which
\* called it, returns whether there is a result
SubscribeReturns(th, result) ==
    Finished(th, IF th.op = "renew_subscription" THEN result # None ELSE result)

\* _post_json has left r: an exception is caught and the result is None
Posted(t, th, r) ==
    threads' = [threads EXCEPT ![t] =
        IF r.exc # None
        THEN SubscribeReturns(Requests(th, r), None)
        ELSE [At(Requests(th, r), "store") EXCEPT !.local.response = r.data]]

SubscribeBody(local) ==
    [hid |-> local.hid, hidList |-> local.hid_list, subscribe |-> local.devices,
     unsubscribe |-> <<>>]

Post(t, response) ==
    /\ threads[t].pc = "post"
    /\ Posted(t, threads[t],
              _request_json("POST", "/app/device/subscribeStatus",
                            SubscribeBody(threads[t].local), TRUE, response))
    /\ history' = IF threads[t].op = "renew_subscription"
                     /\ Refused(response)
                  THEN [history EXCEPT !.renewed = TRUE] ELSE history
    /\ UNCHANGED <<now, sessionVars, subscription_data, mqtt_client,
                   mqtt_connected, status_callbacks, _subscription_devices,
                   _subscription_hids, _mqtt_lock, clients>>

\* self.subscription_data = response
Store(t) ==
    /\ threads[t].pc = "store"
    /\ subscription_data' = threads[t].local.response
    /\ threads' = [threads EXCEPT ![t] = At(@, "lists")]
    /\ UNCHANGED <<now, sessionVars, mqtt_client, mqtt_connected,
                   status_callbacks, _subscription_devices, _subscription_hids,
                   _mqtt_lock, clients, history>>

\* the parameters are stored for renewal and the response is returned
Lists(t) ==
    /\ threads[t].pc = "lists"
    /\ _subscription_devices' = threads[t].local.devices
    /\ _subscription_hids' = threads[t].local.hid_list
    /\ threads' = [threads EXCEPT ![t] =
                      SubscribeReturns(@, threads[t].local.response)]
    /\ history' = [history EXCEPT
                      !.subscribed = Some([hid_list |-> threads[t].local.hid_list,
                                           devices |-> threads[t].local.devices]),
                      !.renewed = history.renewed
                                  \/ threads[t].op = "renew_subscription"]
    /\ UNCHANGED <<now, sessionVars, subscription_data, mqtt_client,
                   mqtt_connected, status_callbacks, _mqtt_lock, clients>>

----
\* the threads that are in connect_mqtt and have not yet created their client
Creating == {u \in DOMAIN threads : threads[u].pc \in {"acquire_connect", "create"}}

\* connect_mqtt(callback) up to the lock
CallConnect(t, callback) ==
    /\ IsIdle(t)
    /\ Len(clients) + Cardinality(Creating) < MaxClients
    /\ callback # None => Len(status_callbacks) < MaxCallbacks
    /\ IF subscription_data = None
       THEN /\ threads' = [threads EXCEPT ![t] =
                              Finished(Start("connect_mqtt", "idle", <<>>), FALSE)]
            /\ UNCHANGED status_callbacks
       ELSE /\ threads' = [threads EXCEPT ![t] =
                              Start("connect_mqtt", "acquire_connect", <<>>)]
            /\ status_callbacks' = status_callbacks \o callback
    /\ history' = [history EXCEPT !.renewed = FALSE]
    /\ UNCHANGED <<now, sessionVars, subscription_data, mqtt_client,
                   mqtt_connected, _subscription_devices, _subscription_hids,
                   _mqtt_lock, clients>>

\* with self._mqtt_lock, in connect_mqtt
AcquireConnect(t) ==
    /\ threads[t].pc = "acquire_connect"
    /\ CanAcquire(_mqtt_lock)
    /\ _mqtt_lock' = Some(t)
    /\ threads' = [threads EXCEPT ![t] = At(@, "create")]
    /\ UNCHANGED <<now, sessionVars, subscription_data, mqtt_client,
                   mqtt_connected, status_callbacks, _subscription_devices,
                   _subscription_hids, clients, history>>

\* deviceName&productKey and deviceSecret, where all three are there
Credentials(data) ==
    IF /\ Get(data, "deviceName") \notin {None, Some("")}
       /\ Get(data, "productKey") \notin {None, Some("")}
       /\ Get(data, "deviceSecret") \notin {None, Some("")}
    THEN Some(<<data.deviceName \o "&" \o data.productKey, data.deviceSecret>>)
    ELSE None

NewClient(data) == [loop |-> FALSE, link |-> "new", credentials |-> Credentials(data)]

\* already connected, or a new client with the credentials of the subscription
Create(t) ==
    /\ threads[t].pc = "create"
    /\ IF mqtt_client # None /\ mqtt_connected
       THEN /\ _mqtt_lock' = None
            /\ threads' = [threads EXCEPT ![t] =
                              Finished(Event(@, [e |-> "already connected"]), TRUE)]
            /\ UNCHANGED <<mqtt_client, clients>>
       ELSE /\ clients' = Append(clients, NewClient(subscription_data[1]))
            /\ mqtt_client' = Some(Len(clients) + 1)
            /\ threads' = [threads EXCEPT ![t] = At(@, "connect")]
            /\ UNCHANGED _mqtt_lock
    /\ UNCHANGED <<now, sessionVars, subscription_data, mqtt_connected,
                   status_callbacks, _subscription_devices, _subscription_hids,
                   history>>

\* the broker is reached at address and answers the connect call
Reached(address, outcome) == address.ok /\ address.host # "" /\ outcome = "ok"

\* what connect_mqtt did with the address it read from mqtt_url
Attempt(mqtt_url, address, outcome) ==
    IF address.ok
    THEN [e |-> "connect", host |-> address.host, port |-> address.port,
          ok |-> Reached(address, outcome)]
    ELSE [e |-> "unparsable", url |-> mqtt_url]

\* self.mqtt_client.connect(host, port, 60) and loop_start(), for the address
\* read from the subscription; every exception is caught
Connected(t, mqtt_url, address, outcome) ==
    /\ clients' = IF Reached(address, outcome)
                  THEN [clients EXCEPT ![mqtt_client[1]].loop = TRUE,
                                       ![mqtt_client[1]].link = "connecting"]
                  ELSE clients
    /\ threads' = [threads EXCEPT ![t] =
            Finished(Event(@, Attempt(mqtt_url, address, outcome)),
                     Reached(address, outcome))]
    /\ _mqtt_lock' = None

Connect(t, outcome) ==
    /\ threads[t].pc = "connect"
    /\ Connected(t, HostUrl(subscription_data[1]),
                 BrokerAddress(HostUrl(subscription_data[1])), outcome)
    /\ UNCHANGED <<now, sessionVars, subscription_data, mqtt_client,
                   mqtt_connected, status_callbacks, _subscription_devices,
                   _subscription_hids, history>>

----
\* disconnect_mqtt() up to the lock
CallDisconnect(t) ==
    /\ IsIdle(t)
    /\ threads' = [threads EXCEPT ![t] =
                      Start("disconnect_mqtt", "acquire_disconnect", <<>>)]
    /\ UNCHANGED <<now, sessionVars, subscription_data, mqtt_client,
                   mqtt_connected, status_callbacks, _subscription_devices,
                   _subscription_hids, _mqtt_lock, clients, history>>

\* with self._mqtt_lock, in disconnect_mqtt
AcquireDisconnect(t) ==
    /\ threads[t].pc = "acquire_disconnect"
    /\ CanAcquire(_mqtt_lock)
    /\ _mqtt_lock' = Some(t)
    /\ threads' = [threads EXCEPT ![t] = At(@, "disconnect")]
    /\ UNCHANGED <<now, sessionVars, subscription_data, mqtt_client,
                   mqtt_connected, status_callbacks, _subscription_devices,
                   _subscription_hids, clients, history>>

\* disconnect_mqtt returns to its caller, or to renew_subscription
Disconnected(th) ==
    IF th.op = "renew_subscription" THEN At(th, "resubscribe") ELSE Finished(th, None)

\* loop_stop(), disconnect() and the fields reset, if there is a client
StopClient(t) ==
    /\ clients' = IF mqtt_client # None
                  THEN [clients EXCEPT ![mqtt_client[1]].loop = FALSE,
                                       ![mqtt_client[1]].link = "closed"]
                  ELSE clients
    /\ mqtt_client' = None
    /\ mqtt_connected' = IF mqtt_client # None THEN FALSE ELSE mqtt_connected
    /\ threads' = [threads EXCEPT ![t] =
                      Disconnected(Event(@, [e |-> "disconnect", client |-> mqtt_client]))]

Disconnect(t) ==
    /\ threads[t].pc = "disconnect"
    /\ StopClient(t)
    /\ _mqtt_lock' = None
    /\ UNCHANGED <<now, sessionVars, subscription_data, status_callbacks,
                   _subscription_devices, _subscription_hids, history>>

----
\* primary_hid = self._subscription_hids[0]
PrimaryHid(hids) == hids[1]

\* renew_subscription after is_subscription_expired returned found
RenewFound(th, found) ==
    IF ~found THEN Finished(th, TRUE)
    ELSE IF _subscription_devices = <<>> \/ _subscription_hids = <<>>
    THEN Finished(th, FALSE)
    ELSE At(th, "acquire_disconnect")

\* renew_subscription() up to the lock of disconnect_mqtt
CallRenew(t) ==
    /\ IsIdle(t)
    /\ threads' = [threads EXCEPT ![t] =
            RenewFound(Event(Start("renew_subscription", "idle", <<>>),
                             [e |-> "expired",
                              found |-> is_subscription_expired(subscription_data, now)]),
                       is_subscription_expired(subscription_data, now))]
    /\ UNCHANGED <<now, sessionVars, subscription_data, mqtt_client,
                   mqtt_connected, status_callbacks, _subscription_devices,
                   _subscription_hids, _mqtt_lock, clients, history>>

\* renew_subscription calls subscribe_to_device_status with the stored lists
Resubscribe(t) ==
    /\ threads[t].pc = "resubscribe"
    /\ threads' = [threads EXCEPT ![t] =
            [At(@, "post") EXCEPT
                !.local = [hid |-> PrimaryHid(_subscription_hids),
                           hid_list |-> _subscription_hids,
                           devices |-> _subscription_devices,
                           response |-> None]]]
    /\ UNCHANGED <<now, sessionVars, subscription_data, mqtt_client,
                   mqtt_connected, status_callbacks, _subscription_devices,
                   _subscription_hids, _mqtt_lock, clients, history>>

----
\* _on_mqtt_connect(client, userdata, flags, rc), called by the loop of client c
OnMqttConnect(c, rc) ==
    /\ c \in 1..Len(clients)
    /\ clients[c].loop
    /\ clients[c].link = "connecting"
    /\ mqtt_connected' = (rc = 0)
    /\ clients' = IF rc = 0 THEN [clients EXCEPT ![c].link = "up"] ELSE clients
    /\ UNCHANGED <<now, sessionVars, subscription_data, mqtt_client,
                   status_callbacks, _subscription_devices, _subscription_hids,
                   _mqtt_lock, threads, history>>

\* _on_mqtt_disconnect(client, userdata, rc), called by the loop of client c,
\* which then connects again
OnMqttDisconnect(c) ==
    /\ c \in 1..Len(clients)
    /\ clients[c].loop
    /\ clients[c].link = "up"
    /\ mqtt_connected' = FALSE
    /\ clients' = [clients EXCEPT ![c].link = "connecting"]
    /\ UNCHANGED <<now, sessionVars, subscription_data, mqtt_client,
                   status_callbacks, _subscription_devices, _subscription_hids,
                   _mqtt_lock, threads, history>>

\* time passes while no call is under way
PushTick ==
    /\ \A t \in DOMAIN threads : IsIdle(t)
    /\ now + ClockStep <= ClockStart + MaxWaits * ClockStep
    /\ now' = now + ClockStep
    /\ UNCHANGED <<sessionVars, pushVars>>

\* a cache left by a login
LoggedInCache ==
    [email |-> "user@example.com", token |-> "tok",
     token_expires |-> timestamp(ClockStart) + TokenLife, refresh_token |-> "ref"]

InitLoggedIn(callers) ==
    /\ timer = NewDiivooWT11W(TimerProps)
    /\ call = [method |-> "__init__", arg |-> "", zones |-> NewZones]
    /\ InitPush(callers)
    /\ now = ClockStart
    /\ cache = LoggedInCache
    /\ homes = <<>>
    /\ hubs = <<>>
    /\ poll = [active |-> FALSE, hub |-> 0, skipped |-> FALSE]
    /\ last = [op |-> "__init__", rec |-> NoRecord, target |-> None,
               raised |-> FALSE, pre |-> <<>>]
    /\ reply = [exc |-> None, ret |-> None, sent |-> <<>>, got |-> None,
                cache |-> <<>>]

\* the steps of the calls of thread t
PushSteps(t, subscriptions, responses, callbacks) ==
    \/ CallIsSubscriptionExpired(t)
    \/ \E s \in subscriptions : CallSubscribe(t, s.hid_list[1], s.hid_list, s.devices)
    \/ \E response \in responses : Post(t, response)
    \/ Store(t)
    \/ Lists(t)
    \/ \E callback \in callbacks : CallConnect(t, callback)
    \/ AcquireConnect(t)
    \/ Create(t)
    \/ \E outcome \in {"ok", "fails"} : Connect(t, outcome)
    \/ CallDisconnect(t)
    \/ AcquireDisconnect(t)
    \/ Disconnect(t)
    \/ CallRenew(t)
    \/ Resubscribe(t)

NetworkSteps ==
    \/ \E c \in 1..Len(clients), rc \in {0, 5} : OnMqttConnect(c, rc)
    \/ \E c \in 1..Len(clients) : OnMqttDisconnect(c)

\* one thread calls the methods one after another while the clock runs
InitPushChannel == InitLoggedIn({"job"})

NextPushChannel ==
    \/ PushSteps("job", Subscriptions, SubscribeResponses(now),
                 {None, Some("_on_mqtt_status_update")})
    \/ NetworkSteps
    \/ PushTick

SpecPushChannel == InitPushChannel /\ [][NextPushChannel]_vars


\* two threads of the executor call the methods at the same time
InitThreads == InitLoggedIn({"renewal", "shutdown"})

\* the answers of the server to the two threads: a subscription that has
\* expired, one that has not, and a refusal
ThreadResponses ==
    { [code |-> 0, msg |-> "ok", data |-> Descriptor("broker:1883", 0)],
      [code |-> 0, msg |-> "ok",
       data |-> Descriptor("broker", ClockStart * 1000 + 2000000)],
      [code |-> 1004, msg |-> "token invalid", data |-> Descriptor("broker", 0)] }

NextThreads ==
    \/ \E t \in {"renewal", "shutdown"} :
            PushSteps(t, {[hid_list |-> <<"H1">>, devices |-> <<HubInfo("10")>>]},
                      ThreadResponses, {None})
    \/ NetworkSteps

SpecThreads == InitThreads /\ [][NextThreads]_vars

-----------------------------------------------------------------------------
(* _temp_to_mk on the raw temperatures of a status record *)

\* the largest raw temperature, in tenths of a degree Fahrenheit
MaxRaw == 1500

InitTemp ==
    /\ timer = NewDiivooWT11W(TimerProps)
    /\ \E raw \in (-MaxRaw)..MaxRaw : call = [method |-> "", arg |-> raw, result |-> 0]
    /\ InitApi

TempToMk ==
    /\ call.method = ""
    /\ call' = [method |-> "_temp_to_mk", arg |-> call.arg,
                result |-> _temp_to_mk(call.arg)]
    /\ UNCHANGED <<timer, apiVars>>

NextTemp == TempToMk

SpecTemp == InitTemp /\ [][NextTemp]_vars

-----------------------------------------------------------------------------
(* Messages of the broker: _on_mqtt_message and the callbacks it calls *)

\* msg.payload: utf8 says whether the bytes decode, text is what they decode to
Bytes(text) == [utf8 |-> TRUE, text |-> text]

TimerMessage == "{\"mid\": 10, \"id\": \"D05\", \"value\": \"1,-40,2;11#" \o DocFrame \o "\"}"

\* the texts json.loads takes and what it returns for them; Python takes the
\* literal NaN, which JSON has not
JsonDocuments ==
    { [text |-> TimerMessage,
       value |-> [mid |-> 10, id |-> "D05", value |-> PollPrefix \o DocFrame]],
      [text |-> "{\"deviceId\": \"10\", \"id\": \"D05\", \"value\": \"1,-40,2;11\"}",
       value |-> [deviceId |-> "10", id |-> "D05", value |-> "1,-40,2;11"]],
      [text |-> "{\"mid\": 99, \"id\": \"D05\", \"value\": \"1,-40,2;11\"}",
       value |-> [mid |-> 99, id |-> "D05", value |-> "1,-40,2;11"]],
      [text |-> "{\"status\": \"on\"}", value |-> [status |-> "on"]],
      [text |-> "[1]", value |-> [list |-> <<1>>]],
      [text |-> "NaN", value |-> [float |-> "nan"]] }

\* the texts among them that are JSON
JsonTexts == { d.text : d \in JsonDocuments } \ {"NaN"}

\* payloads that are no JSON: bytes that are not UTF-8, nothing, a hex stream
\* behind the prefix 11# and behind another one, separated values, a cut
\* document, words
OtherPayloads ==
    { [utf8 |-> FALSE, text |-> ""] }
    \cup { Bytes(s) : s \in { "", "11#" \o DocFrame, "12#" \o DocFrame, "11#21B7XY",
                              "1,-40,2", "a;b", "a|b", "{\"mid\": 10", "hello" } }

Payloads == { Bytes(d.text) : d \in JsonDocuments } \cup OtherPayloads

\* msg.payload.decode('utf-8'): None stands for UnicodeDecodeError
decode(payload) == IF payload.utf8 THEN Some(payload.text) ELSE None

\* a parser that takes every text
json_loads_lenient(s) == Some([text |-> s])

\* json.loads(s): None stands for json.JSONDecodeError
json_loads(s) ==
    IF \E d \in JsonDocuments : d.text = s
    THEN Some((CHOOSE d \in JsonDocuments : d.text = s).value)
    ELSE None

\* the thread the broker client calls its callbacks in, started by loop_start,
\* and the thread the event loop of the coordinator runs in
NetworkThread == "paho-mqtt"
LoopThread == "MainThread"

\* asyncio.create_task(coro) called in thread: it takes the running loop of
\* the calling thread and raises RuntimeError where there is none
create_task(thread) == thread = LoopThread

\* _on_mqtt_status_update(data) called in thread: the tasks it has scheduled;
\* the RuntimeError of create_task is caught and logged
_on_mqtt_status_update(thread, data) ==
    IF create_task(thread) THEN <<"_process_mqtt_update">> ELSE <<>>

\* what one callback of status_callbacks does when called with data
Callback(callback, thread, data) ==
    IF callback = "_on_mqtt_status_update"
    THEN _on_mqtt_status_update(thread, data)
    ELSE <<>>

\* for i, callback in enumerate(self.status_callbacks): callback(data)
RECURSIVE Scheduled(_, _, _)
Scheduled(callbacks, thread, data) ==
    IF callbacks = <<>> THEN <<>>
    ELSE Callback(Head(callbacks), thread, data)
         \o Scheduled(Tail(callbacks), thread, data)

\* a callback that raises an exception whenever it is called
Failing == "failing"

\* the loop over the callbacks ends with the first one that raises
InvokedUnguarded(callbacks) ==
    IF \E i \in 1..Len(callbacks) : callbacks[i] = Failing
    THEN SubSeq(callbacks, 1,
                CHOOSE i \in 1..Len(callbacks) :
                    /\ callbacks[i] = Failing
                    /\ \A j \in 1..(i - 1) : callbacks[j] # Failing)
    ELSE callbacks

\* for i, callback in enumerate(self.status_callbacks): the callbacks called,
\* in turn; the exception of one is caught and logged inside the loop
RECURSIVE Invoked(_)
Invoked(callbacks) ==
    IF callbacks = <<>> THEN <<>>
    ELSE <<Head(callbacks)>> \o Invoked(Tail(callbacks))

\* _analyze_non_json_mqtt_message(payload): the branch it takes; each branch
\* only logs, and _analyze_hex_device_status, called for the prefix 11#, logs
\* the tags it finds
_analyze_non_json_mqtt_message(payload) ==
    IF Slice(payload, 0, 3) = "11#" THEN "hex"
    ELSE IF FindFirst(payload, ",") >= 0 THEN "csv"
    ELSE IF FindFirst(payload, ";") >= 0 THEN "semicolons"
    ELSE IF FindFirst(payload, "|") >= 0 THEN "pipes"
    ELSE "unknown"

\* what _on_mqtt_message has done with a payload: the exception it let out,
\* the data json.loads returned, the callbacks called in turn, the tasks they
\* scheduled and the branch of the analysis of a text that is no JSON
Handled(payload, text, data, callbacks) ==
    [payload |-> payload, raised |-> FALSE, data |-> data,
     called |-> IF data = None THEN <<>> ELSE Invoked(callbacks),
     tasks |-> IF data = None THEN <<>>
               ELSE Scheduled(callbacks, NetworkThread, data[1]),
     analysed |-> IF text # None /\ data = None
                  THEN _analyze_non_json_mqtt_message(text[1]) ELSE ""]

Decoded(payload, text) ==
    Handled(payload, text, IF text = None THEN None ELSE json_loads(text[1]),
            status_callbacks)

\* _on_mqtt_message(client, userdata, msg), called by the loop of client c
\* for a message of the topic subscribed to in _on_mqtt_connect
OnMqttMessage(c, payload) ==
    /\ c \in 1..Len(clients)
    /\ clients[c].loop
    /\ clients[c].link = "up"
    /\ history' = [history EXCEPT !.message = Some(Decoded(payload, decode(payload)))]
    /\ UNCHANGED <<now, sessionVars, subscription_data, mqtt_client,
                   mqtt_connected, status_callbacks, _subscription_devices,
                   _subscription_hids, _mqtt_lock, clients, threads>>

-----------------------------------------------------------------------------
(* The list of status callbacks *)

\* list.remove(x): the list without the first x
RECURSIVE Removed(_, _)
Removed(list, x) ==
    IF list = <<>> THEN <<>>
    ELSE IF Head(list) = x THEN Tail(list)
    ELSE <<Head(list)>> \o Removed(Tail(list), x)

\* x in list
In(x, list) == \E i \in 1..Len(list) : list[i] = x

\* add_status_callback(callback)
AddStatusCallback(callback) ==
    /\ Len(status_callbacks) < MaxCallbacks
    /\ status_callbacks' = IF In(callback, status_callbacks) THEN status_callbacks
                           ELSE Append(status_callbacks, callback)
    /\ UNCHANGED <<now, sessionVars, subscription_data, mqtt_client,
                   mqtt_connected, _subscription_devices, _subscription_hids,
                   _mqtt_lock, clients, threads, history>>

\* remove_status_callback(callback)
RemoveStatusCallback(callback) ==
    /\ status_callbacks' = IF In(callback, status_callbacks)
                           THEN Removed(status_callbacks, callback)
                           ELSE status_callbacks
    /\ UNCHANGED <<now, sessionVars, subscription_data, mqtt_client,
                   mqtt_connected, _subscription_devices, _subscription_hids,
                   _mqtt_lock, clients, threads, history>>

-----------------------------------------------------------------------------
(* HomgarDataUpdateCoordinator._async_update_data, step by step *)

\* the frame of a step of the update: the push channel but for the coordinator
channelVars ==
    <<subscription_data, mqtt_client, mqtt_connected, status_callbacks,
      _subscription_devices, _subscription_hids, _mqtt_lock, clients, threads,
      history>>

\* the devices self.devices keeps being updated where they are
BuiltInPlace(held) == IF coordinator.objects = 0 THEN 1 ELSE coordinator.objects

\* the objects get_devices_for_hid builds are new ones: none of those held,
\* by self.devices or by an entity
Built(held) == CHOOSE n \in 1..3 : n \notin held /\ \A k \in 1..(n - 1) : k \in held

\* an update that raises and publishes what it has built so far
UpdateFailedPublishing(co) ==
    [co EXCEPT !.update = "idle", !.hub = 0, !.polled = 0, !.devices = hubs]

\* an exception ends the update with UpdateFailed and self.devices as it was
UpdateFailed(co) == [co EXCEPT !.update = "idle", !.hub = 0, !.polled = 0]

\* the account of the config entry
Account == "user@example.com"

\* await ...(self.api.ensure_logged_in, self.email, ...), with response the
\* answer to the login, if it logs in
UpdateLogin(response) ==
    /\ coordinator.update = "idle"
    /\ ~poll.active
    /\ EnsuredLoggedIn(Account, LoginNeeded(Account, TokenExpires),
                       _request_json("POST", "/auth/basic/app/login",
                                     [phoneOrEmail |-> Account], FALSE, response))
    /\ coordinator' = IF LoginNeeded(Account, TokenExpires) /\ Refused(response)
                      THEN UpdateFailed(coordinator)
                      ELSE [coordinator EXCEPT !.update = "homes"]
    /\ UNCHANGED <<now, homes, hubs, poll, decoderVars, channelVars>>

\* homes = await ...(self.api.get_homes); self.homes = homes
UpdateHomes(response) ==
    /\ coordinator.update = "homes"
    /\ ~poll.active
    /\ HomesGot(_request_json("GET", "/app/member/appHome/list", None, TRUE,
                              response))
    /\ coordinator' = IF Refused(response) THEN UpdateFailed(coordinator)
                      ELSE [coordinator EXCEPT !.update = "devices"]
    /\ UNCHANGED <<now, cache, hubs, poll, decoderVars, channelVars>>

\* hubs = await ...(self.api.get_devices_for_hid, home.hid), for the one home
UpdateDevices(response) ==
    /\ coordinator.update = "devices"
    /\ homes # <<>>
    /\ DevicesGot(_request_json("GET", "/app/device/getDeviceByHid",
                                [hid |-> homes[1].hid], TRUE, response))
    /\ coordinator' = IF Refused(response) \/ ListingRaises(response.data)
                      THEN UpdateFailed(coordinator)
                      ELSE [coordinator EXCEPT !.update = "status", !.hub = 1,
                                               !.polled = Built({coordinator.objects,
                                                                 coordinator.entities})]
    /\ UNCHANGED <<now, cache, homes, poll, decoderVars, channelVars>>

\* await ...(self.api.get_device_status, hub): the call goes to a thread of
\* the executor, which applies the records one by one
UpdateStatus(envelope) ==
    /\ coordinator.update = "status"
    /\ ~poll.active
    /\ coordinator.hub \in 1..Len(hubs)
    /\ StatusGot(coordinator.hub, envelope,
                 _request_json("GET", "/app/device/getDeviceStatus",
                               [mid |-> hubs[coordinator.hub].mid], TRUE,
                               StatusResponse(envelope)))
    /\ coordinator' = IF envelope = "records"
                      THEN [coordinator EXCEPT !.update = "records"]
                      ELSE UpdateFailed(coordinator)
    /\ UNCHANGED <<now, cache, homes, hubs, decoderVars, channelVars>>

\* get_device_status has returned or raised: the next hub, if any
UpdateRecords ==
    /\ coordinator.update = "records"
    /\ ~poll.active
    /\ coordinator' = IF last.raised THEN UpdateFailed(coordinator)
                      ELSE [coordinator EXCEPT !.update = "status", !.hub = @ + 1]
    /\ UNCHANGED <<now, cache, homes, hubs, poll, last, reply, decoderVars,
                   channelVars>>

\* self.devices = devices, after the last hub
UpdatePublish ==
    /\ coordinator.update = "status"
    /\ coordinator.hub > Len(hubs)
    /\ coordinator' = [coordinator EXCEPT !.update = "idle", !.hub = 0,
                                          !.polled = 0, !.devices = hubs,
                                          !.objects = coordinator.polled]
    /\ UNCHANGED <<now, cache, homes, hubs, poll, last, reply, decoderVars,
                   channelVars>>

\* async_setup_entry of the platforms, forwarded to after the first refresh:
\* each entity is constructed with a device of coordinator.devices and keeps
\* it in self.device
SetupEntities ==
    /\ coordinator.update = "idle"
    /\ coordinator.objects # 0
    /\ coordinator.entities = 0
    /\ coordinator' = [coordinator EXCEPT !.entities = coordinator.objects]
    /\ UNCHANGED <<now, cache, homes, hubs, poll, last, reply, decoderVars,
                   channelVars>>

\* the records of a poll of the irrigation timer
PolledRecords ==
    { [id |-> "D05", value |-> PollPrefix \o DocFrame],
      [id |-> "D05", value |-> "1,-40,2;11"],
      [id |-> "connected", value |-> "x"] }

\* a subscription as the server grants it
GrantedResponse ==
    [code |-> 0, msg |-> "ok",
     data |-> Descriptor("broker:1883", ClockStart * 1000 + 2000000)]

\* a thread sets the channel up, with the callback of the coordinator, and
\* the broker accepts the connection
ChannelSetUp ==
    \/ CallSubscribe("job", "H1", <<"H1">>, <<HubInfo("10")>>)
    \/ Post("job", GrantedResponse)
    \/ Store("job")
    \/ Lists("job")
    \/ CallConnect("job", Some("_on_mqtt_status_update"))
    \/ AcquireConnect("job")
    \/ Create("job")
    \/ Connect("job", "ok")
    \/ \E c \in 1..Len(clients) : OnMqttConnect(c, 0)

\* the broker sends payloads of every kind over the channel, to the callback
\* of the coordinator and to those added before and after it
InitMessages == InitLoggedIn({"job"})

NextMessages ==
    \/ ChannelSetUp
    \/ \E callback \in {"observer", Failing} : AddStatusCallback(callback)
    \/ \E c \in 1..Len(clients), payload \in Payloads : OnMqttMessage(c, payload)

SpecMessages == InitMessages /\ [][NextMessages]_vars

\* the coordinator polls the irrigation timer while the broker sends messages
InitUpdates == InitLoggedIn({"job"})

NextUpdates ==
    \/ \E response \in LoginResponses : UpdateLogin(response)
    \/ \E response \in HomeResponses : UpdateHomes(response)
    \/ \E response \in {[code |-> 0, data |-> IrrigationListing],
                        [code |-> 1004, msg |-> "token invalid",
                         data |-> IrrigationListing]} :
            UpdateDevices(response)
    \/ \E envelope \in StatusEnvelopes : UpdateStatus(envelope)
    \/ \E subdevice_status \in PolledRecords : StatusRecord(subdevice_status)
    \/ StatusDone
    \/ UpdateRecords
    \/ UpdatePublish
    \/ ChannelSetUp
    \/ \E c \in 1..Len(clients),
          payload \in {Bytes(TimerMessage), Bytes("11#" \o DocFrame)} :
            OnMqttMessage(c, payload)

SpecUpdates == InitUpdates /\ [][NextUpdates]_vars

\* the coordinator, with an auth cache of any kind, polls again and again,
\* and the platforms are set up after the first refresh
InitEntities == InitSession

NextEntities ==
    \/ \E response \in LoginResponses : UpdateLogin(response)
    \/ \E response \in HomeResponses : UpdateHomes(response)
    \/ \E response \in {[code |-> 0, data |-> IrrigationListing],
                        [code |-> 1004, msg |-> "token invalid",
                         data |-> IrrigationListing]} :
            UpdateDevices(response)
    \/ \E envelope \in StatusEnvelopes : UpdateStatus(envelope)
    \/ \E subdevice_status \in PolledRecords : StatusRecord(subdevice_status)
    \/ StatusDone
    \/ UpdateRecords
    \/ UpdatePublish
    \/ SetupEntities

SpecEntities == InitEntities /\ [][NextEntities]_vars

-----------------------------------------------------------------------------
(* Observers come and go while the channel is used *)

\* the observers of the model: the coordinator and one more
Observers == {"_on_mqtt_status_update", "observer"}

\* one thread subscribes, connects with the callback of the coordinator,
\* renews and disconnects, observers come and go, and the broker sends the
\* message of the timer
InitCallbacks == InitLoggedIn({"job"})

NextCallbacks ==
    \/ PushSteps("job", {[hid_list |-> <<"H1">>, devices |-> <<HubInfo("10")>>]},
                 {GrantedResponse,
                  [code |-> 0, msg |-> "ok", data |-> Descriptor("broker:1883", 0)]},
                 {Some("_on_mqtt_status_update")})
    \/ NetworkSteps
    \/ \E callback \in Observers : AddStatusCallback(callback)
    \/ \E callback \in Observers : RemoveStatusCallback(callback)
    \/ \E c \in 1..Len(clients) : OnMqttMessage(c, Bytes(TimerMessage))

SpecCallbacks == InitCallbacks /\ [][NextCallbacks]_vars

-----------------------------------------------------------------------------
(* HomgarDataUpdateCoordinator: the channel set up, renewed and shut down.
   The event loop hands each call of the API to a thread of the executor and
   awaits it: coordinator.task says which call of _setup_mqtt_subscription or
   _subscription_renewal_loop is awaited, coordinator.shutdown which one of
   async_shutdown. *)

\* a step of the event loop: the coordinator becomes co and the threads th
EventLoop(co, th) ==
    /\ coordinator' = co
    /\ threads' = th
    /\ UNCHANGED <<now, cache, homes, hubs, poll, last, reply, decoderVars,
                   subscription_data, mqtt_client, mqtt_connected,
                   status_callbacks, _subscription_devices,
                   _subscription_hids, _mqtt_lock, clients, history>>

\* await self.hass.async_add_executor_job(...): the call waits for thread t
Submit(t, co) == EventLoop(co, [threads EXCEPT ![t] = Idle])

\* the call op that thread t was given has returned
Returned(t, op) ==
    threads[t].op = op /\ threads[t].pc = "idle" /\ threads[t].ret # None

\* thread t has not begun the call it was given
Waiting(t) == threads[t] = Idle

\* _setup_mqtt_subscription, from _async_update_data when not mqtt_subscribed
SetupSubscribe ==
    /\ coordinator.task = "none"
    /\ coordinator.shutdown = "none"
    /\ ~coordinator.mqtt_subscribed
    /\ Submit("renewal", [coordinator EXCEPT !.task = "subscribe"])

\* _async_update_data when mqtt_subscribed: the devices are polled and new
\* objects published, and _setup_mqtt_subscription is not called
RefreshSubscribed ==
    /\ coordinator.shutdown = "none"
    /\ coordinator.mqtt_subscribed
    /\ EventLoop([coordinator EXCEPT !.objects = Built({coordinator.objects,
                                                        coordinator.entities})],
                 threads)

\* if subscription_result: connect_mqtt is next
AwaitSubscribe ==
    /\ coordinator.task = "subscribe"
    /\ Returned("renewal", "subscribe_to_device_status")
    /\ Submit("renewal",
              [coordinator EXCEPT !.task = IF threads["renewal"].ret[1] # None
                                           THEN "setup_connect" ELSE "none"])

\* if mqtt_connected: the flags are set and the renewal task is started
AwaitSetupConnect ==
    /\ coordinator.task = "setup_connect"
    /\ Returned("renewal", "connect_mqtt")
    /\ Submit("renewal",
              IF threads["renewal"].ret[1]
              THEN [coordinator EXCEPT !.mqtt_connected = TRUE,
                                       !.mqtt_subscribed = TRUE, !.task = "sleep"]
              ELSE [coordinator EXCEPT !.task = "none"])

\* while self.mqtt_connected: await asyncio.sleep(300), then
\* is_subscription_expired
Wake ==
    /\ coordinator.task = "sleep"
    /\ Submit("renewal",
              [coordinator EXCEPT !.task = IF coordinator.mqtt_connected
                                           THEN "check" ELSE "done"])

\* if needs_renewal: renew_subscription is next
AwaitCheck ==
    /\ coordinator.task = "check"
    /\ Returned("renewal", "is_subscription_expired")
    /\ Submit("renewal",
              [coordinator EXCEPT !.task = IF threads["renewal"].ret[1]
                                           THEN "renew" ELSE "sleep"])

\* the loop ends with self.mqtt_connected = False when the call failed
LoopAfter(ok, next) ==
    IF ok THEN [coordinator EXCEPT !.task = next]
    ELSE [coordinator EXCEPT !.task = "done", !.mqtt_connected = FALSE]

\* if renewal_success: connect_mqtt(self._on_mqtt_status_update) is next
AwaitRenew ==
    /\ coordinator.task = "renew"
    /\ Returned("renewal", "renew_subscription")
    /\ Submit("renewal", LoopAfter(threads["renewal"].ret[1], "connect"))

AwaitConnect ==
    /\ coordinator.task = "connect"
    /\ Returned("renewal", "connect_mqtt")
    /\ Submit("renewal", LoopAfter(threads["renewal"].ret[1], "sleep"))

\* the thread of the executor begins the call the event loop awaits
Run ==
    \/ /\ coordinator.task = "subscribe"
       /\ Waiting("renewal")
       /\ CallSubscribe("renewal", "H1", <<"H1">>, <<HubInfo("10")>>)
    \/ /\ coordinator.task \in {"setup_connect", "connect"}
       /\ Waiting("renewal")
       /\ CallConnect("renewal", Some("_on_mqtt_status_update"))
    \/ /\ coordinator.task = "check"
       /\ Waiting("renewal")
       /\ CallIsSubscriptionExpired("renewal")
    \/ /\ coordinator.task = "renew"
       /\ Waiting("renewal")
       /\ CallRenew("renewal")
    \/ /\ coordinator.shutdown = "disconnect"
       /\ Waiting("shutdown")
       /\ CallDisconnect("shutdown")

\* the renewal task, cancelled, is done at once
StopOnCancel(co) == [co EXCEPT !.task = "done"]

\* async_shutdown: the renewal task is cancelled at the await it is at and
\* awaited; the call it awaited goes on in its thread if it has begun. Then
\* disconnect_mqtt, if self.mqtt_connected
Shutdown ==
    /\ coordinator.shutdown = "none"
    /\ coordinator.task \in {"sleep", "check", "renew", "connect", "done"}
    /\ IF coordinator.mqtt_connected
       THEN EventLoop([StopOnCancel(coordinator) EXCEPT !.shutdown = "disconnect"],
                      [threads EXCEPT !["shutdown"] = Idle])
       ELSE EventLoop([StopOnCancel(coordinator) EXCEPT !.shutdown = "done"],
                      threads)

\* self.mqtt_connected = False; self.mqtt_subscribed = False
AwaitDisconnect ==
    /\ coordinator.shutdown = "disconnect"
    /\ Returned("shutdown", "disconnect_mqtt")
    /\ EventLoop([coordinator EXCEPT !.shutdown = "done",
                                     !.mqtt_connected = FALSE,
                                     !.mqtt_subscribed = FALSE],
                 threads)

\* the steps inside the calls of thread t
Inside(t, responses) ==
    \/ \E response \in responses : Post(t, response)
    \/ Store(t)
    \/ Lists(t)
    \/ AcquireConnect(t)
    \/ Create(t)
    \/ \E outcome \in {"ok", "fails"} : Connect(t, outcome)
    \/ AcquireDisconnect(t)
    \/ Disconnect(t)
    \/ Resubscribe(t)

InitShutdown == InitLoggedIn({"renewal", "shutdown"})

NextShutdown ==
    \/ SetupSubscribe
    \/ RefreshSubscribed
    \/ AwaitSubscribe
    \/ AwaitSetupConnect
    \/ Wake
    \/ AwaitCheck
    \/ AwaitRenew
    \/ AwaitConnect
    \/ Run
    \/ Shutdown
    \/ AwaitDisconnect
    \/ \E t \in {"renewal", "shutdown"} : Inside(t, ThreadResponses)
    \/ NetworkSteps

SpecShutdown == InitShutdown /\ [][NextShutdown]_vars

\* the same with the scheduling of the event loop and of the executor: a
\* refresh comes again and again, and runs _setup_mqtt_subscription when
\* mqtt_subscribed is false, a task that can go on does, and a call handed to
\* the executor is run to its end. Nothing makes Home Assistant shut down
Scheduling ==
    /\ WF_vars(SetupSubscribe)
    /\ WF_vars(RefreshSubscribed)
    /\ WF_vars(AwaitSubscribe)
    /\ WF_vars(AwaitSetupConnect)
    /\ WF_vars(Wake)
    /\ WF_vars(AwaitCheck)
    /\ WF_vars(AwaitRenew)
    /\ WF_vars(AwaitConnect)
    /\ WF_vars(Run)
    /\ WF_vars(Inside("renewal", ThreadResponses))

SpecRenewal == InitShutdown /\ [][NextShutdown]_vars /\ Scheduling

-----------------------------------------------------------------------------
(* The control surface: control_zone and the callers of it *)

DecimalDigits == <<"0", "1", "2", "3", "4", "5", "6", "7", "8", "9">>

\* str(n) for n >= 0
RECURSIVE str(_)
str(n) ==
    IF n < 10 THEN DecimalDigits[n + 1]
    ELSE str(n \div 10) \o DecimalDigits[(n % 10) + 1]

ValueError(msg) == [cls |-> "ValueError", msg |-> msg]

\* a call that raises exc before any request
RaisedBefore(exc) == [exc |-> Some(exc), data |-> None, sent |-> <<>>, got |-> <<>>]

\* not x, for a string or None
Falsy(x) == IF x \in STRING THEN x = "" ELSE TRUE

\* DiivooWT11W.control_zone(api, zone_number, mode, duration), for the answer
\* response of the server: what _request_json leaves, or the ValueError
control_zone(obj, zone_number, mode, duration, response) ==
    IF zone_number \notin {1, 2, 3}
    THEN RaisedBefore(ValueError("Zone number must be 1, 2, or 3"))
    ELSE IF Falsy(obj.hub_device_name) \/ Falsy(obj.hub_product_key)
    THEN RaisedBefore(ValueError("Hub device name and product key are required"))
    ELSE _request_json("POST", "/app/device/controlWorkMode",
                       [deviceName |-> obj.hub_device_name,
                        productKey |-> obj.hub_product_key,
                        mid |-> str(obj.mid), addr |-> obj.address,
                        port |-> zone_number, mode |-> mode,
                        duration |-> duration, param |-> ""],
                       TRUE, response)

\* the zone is shown as commanded without waiting for a status record
CommandedOptimistically(obj, zone_number, mode) ==
    IF zone_number \in DOMAIN obj.zones
    THEN [obj EXCEPT !.zones[zone_number].active = (mode = 1)]
    ELSE obj

\* the object after control_zone, which assigns to no attribute of self
Commanded(obj, zone_number, mode) == obj

\* the keys of coordinator.devices: hub_{mid} and device_{mid}_{address}
DeviceKey(tree, pos) ==
    IF pos[2] = 0 THEN "hub_" \o str(DeviceAt(tree, pos).mid)
    ELSE "device_" \o str(DeviceAt(tree, pos).mid) \o "_"
         \o str(DeviceAt(tree, pos).address)

\* self.devices.get(device_id), over the devices held
DevicesGet(tree, device_id) ==
    IF \E pos \in Positions(tree) : DeviceKey(tree, pos) = device_id
    THEN Some(CHOOSE pos \in Positions(tree) : DeviceKey(tree, pos) = device_id)
    ELSE None

\* the call op on the timer at pos has left r
ZoneCommanded(op, pos, zone_number, mode, r) ==
    /\ hubs' = WithDeviceAt(hubs, pos, Commanded(DeviceAt(hubs, pos), zone_number, mode))
    /\ last' = Called(op, r.exc # None)
    /\ reply' = IF r.exc # None THEN Raises(r) ELSE Returns(r, r.data[1])

\* device.control_zone(api, zone_number, mode, duration)
ControlZone(op, pos, zone_number, mode, duration, response) ==
    /\ ~poll.active
    /\ pos \in Positions(hubs)
    /\ DeviceAt(hubs, pos).cls = "DiivooWT11W"
    /\ ZoneCommanded(op, pos, zone_number, mode,
                     control_zone(DeviceAt(hubs, pos), zone_number, mode,
                                  duration, response))
    /\ UNCHANGED <<now, cache, homes, poll, decoderVars, pushVars>>

TurnOnZone(pos, zone_number, duration, response) ==
    ControlZone("turn_on_zone", pos, zone_number, 1, duration, response)

TurnOffZone(pos, zone_number, response) ==
    ControlZone("turn_off_zone", pos, zone_number, 0, 0, response)

\* async_control_zone returns ok after the requests of r
ZoneControlled(op, r, ok) ==
    /\ last' = Called(op, FALSE)
    /\ reply' = [exc |-> None, ret |-> Some(ok), sent |-> r.sent, got |-> r.got,
                 cache |-> cache]

\* async_control_zone with the device found: a device of another class has
\* no control_zone, and every exception is caught
DeviceControlled(op, pos, zone_number, mode, duration, response) ==
    IF DeviceAt(hubs, pos).cls # "DiivooWT11W"
    THEN /\ hubs' = hubs
         /\ ZoneControlled(op, RaisedBefore([cls |-> "AttributeError"]), FALSE)
    ELSE /\ hubs' = WithDeviceAt(hubs, pos,
                                 Commanded(DeviceAt(hubs, pos), zone_number, mode))
         /\ ZoneControlled(op,
                           control_zone(DeviceAt(hubs, pos), zone_number, mode,
                                        duration, response),
                           control_zone(DeviceAt(hubs, pos), zone_number, mode,
                                        duration, response).exc = None)

\* coordinator.async_control_zone(device_id, zone_number, mode, duration); the
\* refresh it asks for is a poll, which the model may start at any time
AsyncControlZone(op, device_id, zone_number, mode, duration, response) ==
    /\ ~poll.active
    /\ IF DevicesGet(hubs, device_id) = None
       THEN /\ hubs' = hubs
            /\ ZoneControlled(op, RaisedBefore([cls |-> "none"]), FALSE)
       ELSE DeviceControlled(op, DevicesGet(hubs, device_id)[1], zone_number,
                             mode, duration, response)
    /\ UNCHANGED <<now, cache, homes, poll, decoderVars, pushVars>>

\* the service rejects the call: vol.Invalid, and the handler does not run
ServiceRejected(op) ==
    /\ ~poll.active
    /\ last' = Called(op, TRUE)
    /\ reply' = [exc |-> Some([cls |-> "vol.Invalid"]), ret |-> None,
                 sent |-> <<>>, got |-> <<>>, cache |-> cache]
    /\ UNCHANGED <<now, cache, homes, hubs, poll, decoderVars, pushVars>>

\* the service homgar.start_irrigation under SERVICE_START_IRRIGATION_SCHEMA
StartIrrigation(device_id, zone, duration, response) ==
    IF zone \in 1..3 /\ duration \in 1..7200
    THEN AsyncControlZone("start_irrigation", device_id, zone, 1, duration, response)
    ELSE ServiceRejected("start_irrigation")

\* the service homgar.stop_irrigation under SERVICE_STOP_IRRIGATION_SCHEMA
StopIrrigation(device_id, zone, response) ==
    IF zone \in 1..3
    THEN AsyncControlZone("stop_irrigation", device_id, zone, 0, 0, response)
    ELSE ServiceRejected("stop_irrigation")

\* HomgarZoneSwitch.async_turn_on of the switch of a zone, without a duration
SwitchTurnOn(device_id, zone, response) ==
    AsyncControlZone("async_turn_on", device_id, zone, 1, 600, response)

\* HomgarZoneSwitch.async_turn_off
SwitchTurnOff(device_id, zone, response) ==
    AsyncControlZone("async_turn_off", device_id, zone, 0, 0, response)

\* the arguments of the callers: zone number, mode and duration, in and out
\* of the ranges of the control surface
Commands ==
    { <<1, 1, 600>>, <<1, 0, 0>>, <<2, 1, 0>>, <<3, 1, 7200>>, <<3, 0, 0>>,
      <<0, 1, 600>>, <<4, 1, 600>>, <<1, 2, 600>>, <<1, 1, -1>>, <<1, 1, 7201>> }

DeviceIds == {"device_10_5", "hub_10", "device_10_9"}

\* the answers of the server to a command
CommandResponses ==
    { [code |-> 0, msg |-> "ok", data |-> [state |-> 1]],
      [code |-> 1004, msg |-> "token invalid", data |-> [state |-> 0]] }

\* a hub with an irrigation timer of two ports
TwoPortListing == << HubData(300, <<[SubData(271, 7, 5) EXCEPT !.portNumber = 2]>>) >>

\* the timers are listed and polled, the zones commanded over every entry of
\* the control surface, and time passes
InitControl == InitLoggedIn({})

NextControl ==
    \/ get_homes([code |-> 0, data |-> <<[hid |-> "H1", homeName |-> "Home"]>>])
    \/ \E listing \in {IrrigationListing, TwoPortListing} :
            get_devices_for_hid("H1", [code |-> 0, data |-> listing])
    \/ \E h \in 1..Len(hubs) : get_device_status(h, "records")
    \/ \E subdevice_status \in PolledRecords : StatusRecord(subdevice_status)
    \/ StatusDone
    \/ PushTick
    \/ \E pos \in Positions(hubs), c \in Commands, response \in CommandResponses :
            ControlZone("control_zone", pos, c[1], c[2], c[3], response)
    \/ \E pos \in Positions(hubs), c \in Commands, response \in CommandResponses :
            TurnOnZone(pos, c[1], c[3], response)
    \/ \E pos \in Positions(hubs), c \in Commands, response \in CommandResponses :
            TurnOffZone(pos, c[1], response)
    \/ \E device_id \in DeviceIds, c \in Commands, response \in CommandResponses :
            AsyncControlZone("async_control_zone", device_id, c[1], c[2], c[3],
                             response)
    \/ \E c \in Commands, response \in CommandResponses :
            StartIrrigation("device_10_5", c[1], c[3], response)
    \/ \E c \in Commands, response \in CommandResponses :
            StopIrrigation("device_10_5", c[1], response)
    \/ \E zone \in {1, 2, 3}, response \in CommandResponses :
            SwitchTurnOn("device_10_5", zone, response)
    \/ \E zone \in {1, 2, 3}, response \in CommandResponses :
            SwitchTurnOff("device_10_5", zone, response)

SpecControl == InitControl /\ [][NextControl]_vars

-----------------------------------------------------------------------------
(* The records of the hub itself, polled with and without a timer behind it *)

\* a display hub with its own unit (did 1) and an irrigation timer
DisplayTimerListing == << HubData(264, <<SubData(264, 1, 1), SubData(271, 7, 5)>>) >>

\* the records of a poll of a display hub: its link, its battery and signal,
\* its own readings and those of the timer
HubRecords ==
    RecordsOf("connected", {"1", "0"}) \cup RecordsOf("state", {"0,-15"})
    \cup RecordsOf("D01", {"1,0,1;781(781/723/1),52(64/50/1),P=10213(10222/10205/1),"})
    \cup RecordsOf("D05", {PollPrefix \o DocFrame})

InitHub == InitLoggedIn({})

NextHub ==
    \/ get_homes([code |-> 0, data |-> <<[hid |-> "H1", homeName |-> "Home"]>>])
    \/ \E l \in {DisplayListing, DisplayTimerListing} :
            get_devices_for_hid("H1", [code |-> 0, data |-> l])
    \/ \E h \in 1..Len(hubs), envelope \in StatusEnvelopes :
            get_device_status(h, envelope)
    \/ \E subdevice_status \in HubRecords : StatusRecord(subdevice_status)
    \/ StatusDone

SpecHub == InitHub /\ [][NextHub]_vars

-----------------------------------------------------------------------------
(* What the claims say of a hex stream, stated without the decoder *)

\* the 1-based positions where tag occurs in h with no occurrence before it
FirstTag(h, tag) ==
    {p \in 1..(Len(h) - Len(tag) + 1) :
        /\ SubSeq(h, p, p + Len(tag) - 1) = tag
        /\ \A q \in 1..(p - 1) : SubSeq(h, q, q + Len(tag) - 1) # tag}

\* the field of `width` characters that starts with the first occurrence of tag
\* is whole: the tag is there and the stream does not end inside the field
WholeField(h, tag, width) == \E p \in FirstTag(h, tag) : p + width - 1 <= Len(h)

\* the characters of that field after the first `skip` ones
FieldText(h, tag, width, skip) ==
    LET p == CHOOSE q \in FirstTag(h, tag) : TRUE
    IN  SubSeq(h, p + skip, p + width - 1)

HexAlphabet == "0123456789ABCDEF"

IsHexText(s) ==
    \A i \in 1..Len(s) : \E k \in 1..16 : SubSeq(HexAlphabet, k, k) = SubSeq(s, i, i)

\* the number a text of at most 4 hex digits denotes, its last digit counting 1
RECURSIVE HexNumber(_)
HexNumber(s) ==
    IF s = "" THEN 0
    ELSE LET unit == SubSeq(s, Len(s), Len(s))
             d == CHOOSE k \in 0..15 : SubSeq(HexAlphabet, k + 1, k + 1) = unit
         IN  16 * HexNumber(SubSeq(s, 1, Len(s) - 1)) + d

StatusCall == call.method = "_parse_port_statuses_precise"
TimerCall == call.method = "_parse_countdown_timers_precise"
DurationCall == call.method = "_parse_duration_settings_precise"

-----------------------------------------------------------------------------
\* C6: after _parse_port_statuses_precise, a zone whose status tag is followed
\* by 21, 20 or 00 (codes D821, D820, D800) has status on, off_recent or
\* off_idle, and active exactly for on; with any other code the zone's status
\* and active are what they were before the call.
C6_StatusCodeMapping ==
    StatusCall =>
        \A z \in Ports :
            WholeField(call.arg, port_patterns[z], 6) =>
                LET code == FieldText(call.arg, port_patterns[z], 6, 2)
                    after == timer.zones[z]
                    before == call.zones[z]
                IN  /\ code = "D821" => after.status = "on" /\ after.active
                    /\ code = "D820" => after.status = "off_recent" /\ ~after.active
                    /\ code = "D800" => after.status = "off_idle" /\ ~after.active
                    /\ code \notin {"D821", "D820", "D800"} =>
                           /\ after.status = before.status
                           /\ after.active = before.active

\* a call that switched zone 1 from on to off_recent and zone 2 from off_idle to on
C6_Witness ==
    /\ StatusCall
    /\ call.zones[1].status = "on" /\ timer.zones[1].status = "off_recent"
    /\ call.zones[2].status = "off_idle" /\ timer.zones[2].status = "on"

-----------------------------------------------------------------------------
(* A status record for the timer's own id, and the hex stream it carries *)

OwnRecord ==
    /\ call.method = "set_device_status"
    /\ call.arg.id = StatusId(timer.address)

\* the hex streams h of which the record value is PollPrefix followed by h
StreamsOf(value) == {h \in HexStreams : value = PollPrefix \o h}

HasText(h, text) ==
    \E p \in 1..(Len(h) - Len(text) + 1) : SubSeq(h, p, p + Len(text) - 1) = text

ZoneStatuses(zones) == [z \in Ports |-> <<zones[z].status, zones[z].active>>]

\* C7 as claimed: a record whose hex stream contains 19D821, 1AD800 and 1BD800,
\* wherever and whatever its length, leaves zone 1 on and zones 2 and 3 off_idle.
C7_AnyStreamWithTheTags ==
    OwnRecord =>
        \A h \in StreamsOf(call.arg.value) :
            (HasText(h, "19D821") /\ HasText(h, "1AD800") /\ HasText(h, "1BD800"))
            => ZoneStatuses(timer.zones) =
                   << <<"on", TRUE>>, <<"off_idle", FALSE>>, <<"off_idle", FALSE>> >>

\* C7 as amended: a record whose hex stream has at least 50 characters and in
\* which the first 19D8 is 19D821, the first 1AD8 is 1AD800 and the first 1BD8
\* is 1BD800, wherever they are and whatever else the stream holds, leaves
\* zone 1 on and zones 2 and 3 off_idle.
C7_LongStreamFirstTags ==
    OwnRecord =>
        \A h \in StreamsOf(call.arg.value) :
            ( /\ Len(h) >= 50
              /\ WholeField(h, "19D8", 6) /\ FieldText(h, "19D8", 6, 0) = "19D821"
              /\ WholeField(h, "1AD8", 6) /\ FieldText(h, "1AD8", 6, 0) = "1AD800"
              /\ WholeField(h, "1BD8", 6) /\ FieldText(h, "1BD8", 6, 0) = "1BD800" )
            => ZoneStatuses(timer.zones) =
                   << <<"on", TRUE>>, <<"off_idle", FALSE>>, <<"off_idle", FALSE>> >>

\* the three tags in reverse order behind 50 characters of other groups, applied
\* to a timer whose zone 1 was off and whose zones 2 and 3 were on
C7_Witness ==
    /\ OwnRecord
    /\ \E h \in StreamsOf(call.arg.value) :
          /\ Len(h) >= 50
          /\ WholeField(h, "19D8", 6) /\ FieldText(h, "19D8", 6, 0) = "19D821"
          /\ WholeField(h, "1AD8", 6) /\ FieldText(h, "1AD8", 6, 0) = "1AD800"
          /\ WholeField(h, "1BD8", 6) /\ FieldText(h, "1BD8", 6, 0) = "1BD800"
          /\ \A p \in FirstTag(h, "1BD8") : \A q \in FirstTag(h, "19D8") :
                50 < p /\ p < q
    /\ ZoneStatuses(call.zones) =
           << <<"off_recent", FALSE>>, <<"on", TRUE>>, <<"on", TRUE>> >>
    /\ ZoneStatuses(timer.zones) =
           << <<"on", TRUE>>, <<"off_idle", FALSE>>, <<"off_idle", FALSE>> >>

\* C10: set_device_status of a DiivooWT11W with a record for its own id returns
\* normally, whatever the value string is.
C10_OwnRecordNeverRaises == OwnRecord => ~call.raised

\* a value without '#' was applied without an exception and left the zones,
\* which an earlier record had set, as they were
C10_Witness ==
    /\ OwnRecord
    /\ ~call.raised
    /\ call.arg.value # "" /\ ~HasText(call.arg.value, "#")
    /\ call.zones[1].countdown_timer = <<39655, 56853>>
    /\ timer.zones = call.zones

-----------------------------------------------------------------------------
(* What the claims say of the status poll *)

RecordStep == last.op = "record"
PushStep == last.op = "set_device_status"

\* a 'Dxx' identifier
IsAddressId(id) == Len(id) > 1 /\ SubSeq(id, 1, 1) = "D"

\* the state of the device itself: a hub without the devices behind it
OwnState(tree, pos) ==
    IF pos[2] = 0 THEN [DeviceAt(tree, pos) EXCEPT !.subdevices = <<>>]
    ELSE DeviceAt(tree, pos)

\* the devices whose state the last step changed
Changed == {pos \in Positions(last.pre) : OwnState(hubs, pos) # OwnState(last.pre, pos)}

\* C1: in get_device_status a record with id 'Dxx' changes at most one device,
\* and that device has address xx; set_device_status called on any device with
\* a 'Dyy' id that is not the id of its own address changes nothing.
C1_AddressRouting ==
    /\ (RecordStep /\ IsAddressId(last.rec.id)) =>
            /\ Cardinality(Changed) <= 1
            /\ \A pos \in Changed :
                    /\ last.target = Some(pos)
                    /\ StatusId(DeviceAt(hubs, pos).address) = last.rec.id
    /\ (PushStep /\ IsAddressId(last.rec.id)
        /\ last.rec.id # StatusId(DeviceAt(last.pre, last.target[1]).address)) =>
            /\ hubs = last.pre
            /\ ~last.raised

\* a 'D02' record of a poll has changed the second of two sensors at address 2
\* and left the first, which holds no reading, as it was
C1_Witness ==
    /\ RecordStep
    /\ last.rec.id = "D02"
    /\ Len(hubs[1].subdevices) = 2
    /\ hubs[1].subdevices[1].address = 2
    /\ hubs[1].subdevices[1].rf_rssi = None
    /\ Changed = {<<1, 2>>}
    /\ hubs[1].subdevices[2].moist_percent_current = Some(52)

\* no device of the polled hub lists the id
Unlisted(id) ==
    \A pos \in Positions(last.pre) :
        pos[1] = poll.hub =>
            \A k \in 1..Len(get_device_status_ids(DeviceAt(last.pre, pos))) :
                get_device_status_ids(DeviceAt(last.pre, pos))[k] # id

\* C2: in get_device_status a record whose id no device of the hub lists
\* changes no device and raises nothing, and the loop goes on: a record that
\* comes after it in the same response is applied to its owner.
C2_UnlistedRecordIgnored ==
    /\ (RecordStep /\ Unlisted(last.rec.id)) =>
            /\ hubs = last.pre
            /\ ~last.raised
            /\ poll.active
            /\ poll.skipped
    /\ (RecordStep /\ poll.skipped /\ ~Unlisted(last.rec.id)) =>
            /\ last.target # None
            /\ hubs = WithDeviceAt(last.pre, last.target[1],
                                   set_device_status(
                                       DeviceAt(last.pre, last.target[1]),
                                       last.rec).obj)

\* after the 'D09' record of a device that was not created, a later record of
\* the same response has set the rain sensor's readings
C2_Witness ==
    /\ RecordStep
    /\ poll.skipped
    /\ poll.active
    /\ last.rec.id = "D03"
    /\ Changed = {<<1, 1>>}
    /\ hubs[1].subdevices[1].rainfall_mm_total = Some(270)

\* the value splits into a general part of three fields with an integer in
\* the middle, and a device-specific part
GeneralPartWellFormed(value) ==
    /\ Len(SplitAll(value, ";")) = 2
    /\ Len(SplitAll(SplitAll(value, ";")[1], ",")) = 3
    /\ IntBase10(SplitAll(SplitAll(value, ";")[1], ",")[2]).ok

\* C3: a record whose general part is well formed never makes
\* set_device_status raise, whatever its device-specific part, and in
\* get_device_status the loop goes on with the next record.
C3_MalformedPayloadNeverRaises ==
    ((RecordStep \/ PushStep) /\ IsAddressId(last.rec.id)
     /\ GeneralPartWellFormed(last.rec.value)) =>
        /\ ~last.raised
        /\ RecordStep => poll.active

NumericFields ==
    {"temp_mk_current", "temp_mk_daily_max", "temp_mk_daily_min",
     "hum_current", "hum_daily_max", "hum_daily_min", "hum_trend",
     "press_pa_current", "press_pa_daily_max", "press_pa_daily_min",
     "moist_percent_current", "light_lux_current",
     "rainfall_mm_total", "rainfall_mm_hour", "rainfall_mm_daily",
     "rainfall_mm_7days", "rf_rssi"}

\* C4: a decoded numeric field that holds a value is never set to None by a
\* later set_device_status call.
C4_NoDestructiveNulling ==
    (RecordStep \/ PushStep) =>
        \A pos \in Positions(last.pre) :
            \A f \in NumericFields \cap DOMAIN DeviceAt(last.pre, pos) :
                DeviceAt(last.pre, pos)[f] # None => DeviceAt(hubs, pos)[f] # None

\* the tree of one hub with one DiivooWT11W at address 5
OneIrrigationTimer ==
    /\ Len(hubs) = 1
    /\ Len(hubs[1].subdevices) = 1
    /\ hubs[1].subdevices[1].cls = "DiivooWT11W"
    /\ hubs[1].subdevices[1].model_code = 271
    /\ hubs[1].subdevices[1].address = 5

\* C5: after login, with home H1 and one hub with one irrigation timer at
\* address 5 listed, the poll record D05 with value '1,-40,2;11#' followed by
\* the documented frame leaves the timer with rf_rssi -40, zone 1 on and
\* active, and the duration setting of zone 1 at 0xDC05.
C5_EndToEnd ==
    (/\ HasToken
     /\ Len(homes) = 1 /\ homes[1].hid = "H1"
     /\ OneIrrigationTimer
     /\ RecordStep
     /\ last.rec = [id |-> "D05", value |-> PollPrefix \o DocFrame]) =>
        /\ hubs[1].subdevices[1].rf_rssi = Some(-40)
        /\ hubs[1].subdevices[1].zones[1].active
        /\ hubs[1].subdevices[1].zones[1].status = "on"
        /\ hubs[1].subdevices[1].zones[1].duration_setting = <<0, 56325>>

-----------------------------------------------------------------------------
(* What the claims say of a stats string, stated without the parser *)

DecimalAlphabet == "0123456789"

IsDigitText(x) ==
    /\ x # ""
    /\ \A i \in 1..Len(x) :
          \E d \in 1..10 : SubSeq(x, i, i) = SubSeq(DecimalAlphabet, d, d)

\* the number a text of digits writes: ten times the number before its last
\* digit, plus that digit
RECURSIVE DigitNumber(_)
DigitNumber(x) ==
    IF x = "" THEN 0
    ELSE LET unit == SubSeq(x, Len(x), Len(x))
         IN  10 * DigitNumber(SubSeq(x, 1, Len(x) - 1))
             + (CHOOSE d \in 0..9 : SubSeq(DecimalAlphabet, d + 1, d + 1) = unit)

\* the places in s where the character c stands
PlacesOf(s, c) == {i \in 1..Len(s) : SubSeq(s, i, i) = c}

\* the places <<a, b, c>> of "(", "/" and "/" that make s the whole pattern
\* N(N/N/N), every N a group of decimal digits
StatsCuts(s) ==
    { cut \in PlacesOf(s, "(") \X PlacesOf(s, "/") \X PlacesOf(s, "/") :
        /\ cut[1] < cut[2] /\ cut[2] < cut[3] /\ cut[3] < Len(s)
        /\ SubSeq(s, Len(s), Len(s)) = ")"
        /\ IsDigitText(SubSeq(s, 1, cut[1] - 1))
        /\ IsDigitText(SubSeq(s, cut[1] + 1, cut[2] - 1))
        /\ IsDigitText(SubSeq(s, cut[2] + 1, cut[3] - 1))
        /\ IsDigitText(SubSeq(s, cut[3] + 1, Len(s) - 1)) }

StatsNumbers(s, cut) ==
    << Some(DigitNumber(SubSeq(s, 1, cut[1] - 1))),
       Some(DigitNumber(SubSeq(s, cut[1] + 1, cut[2] - 1))),
       Some(DigitNumber(SubSeq(s, cut[2] + 1, cut[3] - 1))),
       Some(DigitNumber(SubSeq(s, cut[3] + 1, Len(s) - 1))) >>

StatsParsed == call.method = "_parse_stats_value"

\* C11: _parse_stats_value returns (None, None, None, None) for every string
\* that is not, as a whole, digits "(" digits "/" digits "/" digits ")", and
\* for every string that is, the four numbers current, day_max, day_min and
\* trend in that order; it returns in both cases.
C11_ParseStatsFailsClosed ==
    StatsParsed =>
        /\ StatsCuts(call.arg) = {} => call.result = <<None, None, None, None>>
        /\ \A cut \in StatsCuts(call.arg) :
              call.result = StatsNumbers(call.arg, cut)

\* a string with every separator of the pattern and a group that is no number
\* was parsed
C11_Witness ==
    /\ StatsParsed
    /\ call.arg = "40(x/04/4)"
    /\ call.result = <<None, None, None, None>>

-----------------------------------------------------------------------------
(* What the claims say of the response envelope, stated without _request_json *)

EnvelopeCalls ==
    {"login", "get_homes", "get_devices_for_hid", "get_device_status",
     "control_device_work_mode"}

\* the last call was one of the five and an answer came in
Answered == last.op \in EnvelopeCalls /\ Len(reply.got) = 1

\* the exception the claims expect for an envelope
EnvelopeError(response) ==
    [cls |-> "HomgarApiException", code |-> <<response.code>>,
     msg |-> IF "msg" \in DOMAIN response THEN <<response.msg>> ELSE <<>>]

\* the data of the envelope is what the call of op worked with
DataYielded(op, data) ==
    CASE op = "login" ->
            /\ reply.exc = None
            /\ cache.token = data.token
            /\ cache.refresh_token = data.refreshToken
      [] op = "get_homes" ->
            /\ Len(reply.ret) = 1
            /\ Len(reply.ret[1]) = Len(data)
            /\ \A i \in 1..Len(data) : reply.ret[1][i].hid = data[i].hid
      [] op = "get_devices_for_hid" ->
            /\ Len(reply.ret) = 1
            /\ Len(reply.ret[1]) = Len(data)
            /\ \A i \in 1..Len(data) : reply.ret[1][i].did = data[i].did
      [] op = "get_device_status" ->
            \/ poll.active
            \/ reply.exc = <<[cls |-> "KeyError", key |-> "subDeviceStatus"]>>
      [] op = "control_device_work_mode" -> reply.ret = <<data>>

\* C12: in login, get_homes, get_devices_for_hid, get_device_status and
\* control_device_work_mode an answer whose code is not 0 raises
\* HomgarApiException with the code and the msg of the answer, nothing is
\* returned, and the devices and the auth cache stay as they were; an answer
\* whose code is 0 hands its data to the call.
C12_EnvelopeCheck ==
    Answered =>
        IF reply.got[1].code # 0
        THEN /\ reply.exc = <<EnvelopeError(reply.got[1])>>
             /\ reply.ret = <<>>
             /\ hubs = last.pre
             /\ cache = reply.cache
             /\ ~poll.active
        ELSE DataYielded(last.op, reply.got[1].data)

\* get_devices_for_hid got an answer with a negative code and a device listing
\* while the caller held hubs
C12_Witness ==
    /\ Answered
    /\ last.op = "get_devices_for_hid"
    /\ reply.got[1].code = -1
    /\ Len(reply.got[1].data) > 0
    /\ Len(hubs) > 0

-----------------------------------------------------------------------------
(* What the claims say of ensure_logged_in *)

EnsureReturned == last.op = "ensure_logged_in"

\* the cache before the call is for another account, has no expiry, or has an
\* expiry less than 60 minutes after the time the clock stamped at the call
CacheStale(before, email) ==
    \/ "email" \notin DOMAIN before
    \/ before.email # email
    \/ "token_expires" \notin DOMAIN before
    \/ before.token_expires - timestamp(last.at) < 60 * 60

LoginSent ==
    /\ Len(reply.sent) = 1
    /\ reply.sent[1].path = "/auth/basic/app/login"

\* C13: ensure_logged_in logs in exactly when the cached email is not the
\* requested one or the cached token expires less than 60 minutes from now,
\* a cache without an expiry counting as expired; otherwise it sends nothing
\* and leaves the cache as it was; when it returns without an error the cached
\* email is the requested one.
C13_LoginExactlyWhenStale ==
    EnsureReturned =>
        /\ LoginSent <=> CacheStale(reply.cache, last.arg)
        /\ ~CacheStale(reply.cache, last.arg) =>
              reply.sent = <<>> /\ cache = reply.cache
        /\ reply.exc = <<>> => cache.email = last.arg

\* what ensure_logged_in does whatever the clock: without a login nothing is
\* sent and the cache stays, and a return without an error leaves the
\* requested email in the cache
C13_QuietOrLoggedIn ==
    EnsureReturned =>
        /\ LoginSent \/ (reply.sent = <<>> /\ cache = reply.cache)
        /\ LoginSent => \/ "email" \notin DOMAIN reply.cache
                        \/ reply.cache.email # last.arg
                        \/ fromtimestamp(IF "token_expires" \in DOMAIN reply.cache
                                         THEN reply.cache.token_expires ELSE 0)
                           - last.at < 3600
        /\ reply.exc = <<>> => cache.email = last.arg

-----------------------------------------------------------------------------
(* What the claims say of the device tree, stated without the constructors *)

MappedCodes == {72, 87, 256, 261, 262, 264, 271}

IsListed(d) == d.did # 1 /\ d.modelCode \in MappedCodes

\* the subdevice entries that the claim keeps, in the order of the answer
ListedSubdevices(hub_data) == SelectSeq(hub_data.subDevices, IsListed)

SameDevice(obj, dev_data) ==
    /\ obj.did = dev_data.did
    /\ obj.mid = dev_data.mid
    /\ obj.model_code = dev_data.modelCode

\* hub is the hub of the entry hub_data
HubAsListed(hub, hub_data) ==
    /\ SameDevice(hub, hub_data)
    /\ hub_data.modelCode \notin MappedCodes => hub.cls = "HomgarHubDevice"
    /\ Len(hub.subdevices) = Len(ListedSubdevices(hub_data))
    /\ \A j \in 1..Len(hub.subdevices) :
          /\ SameDevice(hub.subdevices[j], ListedSubdevices(hub_data)[j])
          /\ hub.subdevices[j].address = ListedSubdevices(hub_data)[j].addr

\* get_devices_for_hid got a device tree in an envelope with code 0
TreeListed ==
    /\ last.op = "get_devices_for_hid"
    /\ Len(reply.got) = 1
    /\ reply.got[1].code = 0

TreeReturned(data) ==
    /\ Len(reply.ret) = 1
    /\ Len(reply.ret[1]) = Len(data)
    /\ \A i \in 1..Len(data) : HubAsListed(reply.ret[1][i], data[i])

\* C14: get_devices_for_hid returns one hub for every hub entry of the answer,
\* in the order of the answer, a hub of an unmapped model code as a
\* HomgarHubDevice; the subdevices of each hub are the subdevice entries in
\* their order without those with did 1 and those of an unmapped model code;
\* it returns whatever the model codes are.
C14_DeviceTreeAsListed == TreeListed => TreeReturned(reply.got[1].data)

\* the same for the answers in which no subdevice other than the did 1 entry
\* has the model code of a hub
C14_DeviceTreeOfSubdevices ==
    /\ TreeListed
    /\ \A i \in 1..Len(reply.got[1].data) :
          \A j \in 1..Len(reply.got[1].data[i].subDevices) :
              \/ reply.got[1].data[i].subDevices[j].did = 1
              \/ reply.got[1].data[i].subDevices[j].modelCode \notin {256, 264}
    => TreeReturned(reply.got[1].data)


----
(* C15 *)

\* the thread t has just had an answer from is_subscription_expired
ExpiryAnswered(t) ==
    /\ threads[t].op = "is_subscription_expired"
    /\ IsIdle(t)
    /\ threads[t].events[1].at = now

\* the milliseconds from now to the expiry of the subscription data
TimeLeft(data) == data[1].expire - now * 1000

\* no subscription data, no expiry, or less than 300000 ms left
ExpiredAsSpecified(data) ==
    \/ data = None
    \/ "expire" \notin DOMAIN data[1]
    \/ TimeLeft(data) < 300000

\* C15: is_subscription_expired returns true when there is no subscription
\* data, when the subscription has no expiry, or when expire - now < 300000 ms,
\* and returns false whenever expire - now >= 300000 ms
C15_ExpiredWithinMargin ==
    \A t \in DOMAIN threads :
        ExpiryAnswered(t) =>
            threads[t].ret = Some(ExpiredAsSpecified(subscription_data))


----
(* C16 *)

\* renew_subscription has returned to the thread t
RenewReturned(t) == threads[t].op = "renew_subscription" /\ IsIdle(t)

\* what renew_subscription did, in order
RenewDid(t) == [i \in 1..Len(threads[t].events) |-> threads[t].events[i].e]

\* the subscribe request for the lists of the last successful subscribe
RenewalRequest(lists) ==
    [method |-> "POST", path |-> "/app/device/subscribeStatus",
     body |-> [hid |-> lists.hid_list[1], hidList |-> lists.hid_list,
               subscribe |-> lists.devices, unsubscribe |-> <<>>]]

\* a disconnect, then one request for the lists of the last successful subscribe
DisconnectedThenSubscribed(t) ==
    /\ RenewDid(t) = <<"expired", "disconnect", "request">>
    /\ history.subscribed # None
    /\ threads[t].events[3].request = RenewalRequest(history.subscribed[1])

\* True, with no disconnect and no request
ReturnedTrueUntouched(t) ==
    /\ RenewDid(t) = <<"expired">>
    /\ threads[t].ret = Some(TRUE)

\* renew_subscription found the subscription expired and has returned, and
\* connect_mqtt has not been called since: there is no client and no connection
DisconnectedUntilConnect ==
    history.renewed => mqtt_client = None /\ ~mqtt_connected

\* C16: when renew_subscription finds the subscription expired, it first
\* disconnects the broker client, then issues one subscribe request built from
\* the device list and home-id list of the last successful subscribe (first
\* stored home id as primary), and returns without connecting: mqtt_client is
\* None and mqtt_connected is False until the caller calls connect_mqtt; when
\* the subscription is not expired it returns True without disconnecting or
\* sending any request
C16_RenewDisconnectsThenSubscribes ==
    /\ \A t \in DOMAIN threads :
            RenewReturned(t) =>
                IF threads[t].events[1].found
                THEN DisconnectedThenSubscribed(t)
                ELSE ReturnedTrueUntouched(t)
    /\ DisconnectedUntilConnect


\* a client that connect_mqtt has replaced still runs its network loop
StaleLoop == \E c \in 1..Len(clients) : clients[c].loop /\ mqtt_client # Some(c)

\* C16 holds of a renewal that follows a successful subscribe while no
\* replaced client runs
C16_RenewAfterSubscribe ==
    /\ \A t \in DOMAIN threads :
            RenewReturned(t) /\ history.subscribed # None =>
                IF threads[t].events[1].found
                THEN DisconnectedThenSubscribed(t)
                ELSE ReturnedTrueUntouched(t)
    /\ ~StaleLoop => DisconnectedUntilConnect


----
(* C17 *)

\* C17: whenever renew_subscription returns False, the push channel is left
\* in the disconnected state: mqtt_client is None and mqtt_connected is False
C17_FailedRenewalDisconnected ==
    \A t \in DOMAIN threads :
        RenewReturned(t) /\ threads[t].ret = Some(FALSE) =>
            mqtt_client = None /\ ~mqtt_connected

\* C17 holds while no replaced client runs
C17_FailedRenewalNoStaleLoop ==
    \A t \in DOMAIN threads :
        RenewReturned(t) /\ threads[t].ret = Some(FALSE) /\ ~StaleLoop =>
            mqtt_client = None /\ ~mqtt_connected


----
(* C18 *)

\* connect_mqtt has returned to the thread t
ConnectReturned(t) == threads[t].op = "connect_mqtt" /\ IsIdle(t)

\* what connect_mqtt did, in order
ConnectDid(t) == [i \in 1..Len(threads[t].events) |-> threads[t].events[i].e]

\* the places of the colons of url
Colons(url) == {i \in 1..Len(url) : SubSeq(url, i, i) = ":"}

\* url has a colon and is not host:port with a port of decimal digits
Unparsable(url) ==
    /\ Colons(url) # {}
    /\ \/ Cardinality(Colons(url)) > 1
       \/ \E i \in Colons(url) : ~IsDigitText(SubSeq(url, i + 1, Len(url)))

\* the broker address of the subscription data cannot be parsed
AddressUnparsable ==
    /\ subscription_data # None
    /\ "mqttHostUrl" \in DOMAIN subscription_data[1]
    /\ Unparsable(subscription_data[1].mqttHostUrl)

\* the channel was already connected when connect_mqtt looked
AlreadyConnected(t) == ConnectDid(t) = <<"already connected">>

\* connect_mqtt made its one connect call, which succeeded or not
ConnectIssued(t, ok) ==
    /\ ConnectDid(t) = <<"connect">>
    /\ threads[t].events[1].ok = ok

\* a boolean comes back after at most one connect call; False with no
\* subscription data and after a failed connect call, True only after a
\* successful connect call or when already connected
ReturnsBoolean(t) ==
    /\ threads[t].ret \in {Some(TRUE), Some(FALSE)}
    /\ Cardinality({i \in 1..Len(threads[t].events) :
                        threads[t].events[i].e = "connect"}) <= 1
    /\ subscription_data = None => threads[t].ret = Some(FALSE)
    /\ ConnectIssued(t, FALSE) => threads[t].ret = Some(FALSE)
    /\ threads[t].ret = Some(TRUE) => ConnectIssued(t, TRUE) \/ AlreadyConnected(t)

----
(* C19 *)

\* the thread t is in the section of connect_mqtt that creates, configures and
\* starts a client
InConnectSection(t) == threads[t].pc \in {"create", "connect"}

\* the thread t is in the section of disconnect_mqtt that stops and clears the
\* client
InDisconnectSection(t) == threads[t].pc = "disconnect"

InSection(t) == InConnectSection(t) \/ InDisconnectSection(t)

\* C19: connect_mqtt and disconnect_mqtt never interleave: the section that
\* creates, configures and starts a broker client and the section that stops
\* and clears it are mutually exclusive under the single _mqtt_lock, and the
\* lock is released on every exit path, so that no call is left blocked on an
\* abandoned lock: the lock is held exactly while its holder is in a section
C19_SectionsExclusive ==
    /\ \A t, u \in DOMAIN threads : InSection(t) /\ InSection(u) => t = u
    /\ \A t \in DOMAIN threads : InSection(t) <=> _mqtt_lock = Some(t)
    /\ _mqtt_lock # None => _mqtt_lock[1] \in DOMAIN threads

\* one thread is creating a client while the other waits to disconnect
C19_Witness ==
    \E t, u \in DOMAIN threads :
        /\ InConnectSection(t)
        /\ threads[u].pc = "acquire_disconnect"
        /\ _mqtt_lock = Some(t)


----
(* C20 *)

\* the thread t is between the start and the end of a subscribe or of a renew
InSubscribeOrRenew(t) ==
    /\ threads[t].op \in {"subscribe_to_device_status", "renew_subscription"}
    /\ ~IsIdle(t)

\* the thread t is replacing the subscription descriptor and the stored lists
Replacing(t) == threads[t].pc \in {"store", "lists"}

\* C20: subscribe_to_device_status and renew_subscription are each one
\* in-flight lifecycle operation serialized with connect_mqtt and
\* disconnect_mqtt: no connect or disconnect by another thread executes between
\* the start and the end of a subscribe or of a renew, and connect_mqtt never
\* reads a subscription descriptor that is concurrently being replaced
C20_SubscribeSerialized ==
    \A t, u \in DOMAIN threads :
        t # u =>
            /\ InSubscribeOrRenew(t) => ~InSection(u)
            /\ Replacing(t) => ~InConnectSection(u)


----
(* C28 *)

\* nine times 1000 * ((raw * 0.1 - 32) * 5/9 + 273.15), which is a whole number
NineTimesMilliKelvin(raw) == 500 * raw + 2298350

\* mk is the whole number nearest to 1000 * ((raw * 0.1 - 32) * 5/9 + 273.15)
IsRounded(mk, raw) ==
    /\ 2 * (9 * mk - NineTimesMilliKelvin(raw)) < 9
    /\ 2 * (NineTimesMilliKelvin(raw) - 9 * mk) < 9

Converted == call.method = "_temp_to_mk"

\* C28: _temp_to_mk(raw) equals round(1000 * ((raw*0.1 - 32) * 5/9 + 273.15))
\* for every integer raw in tenths of a degree Fahrenheit, and _temp_to_mk(750)
\* lies in the range 297261..297317
C28_TempToMilliKelvinInRange ==
    Converted =>
        /\ IsRounded(call.result, call.arg)
        /\ call.arg = 750 => call.result \in 297261..297317

\* C28, amended: the formula holds, and _temp_to_mk(750) is 297039
C28_TempToMilliKelvin ==
    Converted =>
        /\ IsRounded(call.result, call.arg)
        /\ call.arg = 750 => call.result = 297039

\* 75.0 degrees Fahrenheit has been converted
C28_Witness == Converted /\ call.arg = 750 /\ call.result = 297039


----
(* C29 *)

\* the clients whose network loop runs
RunningLoops == {c \in 1..Len(clients) : clients[c].loop}

\* C29: at any time at most one broker client created by connect_mqtt has a
\* running network loop: connect_mqtt never replaces self.mqtt_client while the
\* previous client's loop is still running
C29_SingleRunningClient ==
    /\ Cardinality(RunningLoops) <= 1
    /\ \A c \in RunningLoops : mqtt_client = Some(c)

-----------------------------------------------------------------------------
(* C25: payloads that are no JSON are dropped *)

\* _on_mqtt_message has handled a payload
MessageHandled == history.message # None

\* the payload is not JSON: its bytes are no UTF-8 or its text is no document
NotJson(payload) == ~payload.utf8 \/ payload.text \notin JsonTexts

\* the payload is neither JSON nor the literal NaN
NotJsonNorLiteral(payload) == NotJson(payload) /\ payload.text # "NaN"

\* nothing came out of the handler and no callback was called
Dropped(message) ==
    /\ ~message.raised
    /\ message.called = <<>>
    /\ message.tasks = <<>>

\* a step in which a payload was handled left the devices and the connection
\* as they were
MessageStepFrame ==
    history'.message # history.message =>
        UNCHANGED <<hubs, timer, coordinator, mqtt_client, mqtt_connected, clients>>

\* C25 as stated: _on_mqtt_message never raises, and a payload that is not
\* valid JSON reaches no status callback
C25_NonJsonDropped ==
    MessageHandled =>
        /\ ~history.message[1].raised
        /\ NotJson(history.message[1].payload) => Dropped(history.message[1])

\* C25: _on_mqtt_message never raises; a payload that is neither JSON nor the
\* literal NaN reaches no status callback and schedules nothing; and no
\* payload changes a device, the client or mqtt_connected
C25_RejectedPayloadDropped ==
    /\ [](MessageHandled =>
            /\ ~history.message[1].raised
            /\ NotJsonNorLiteral(history.message[1].payload)
                    => Dropped(history.message[1]))
    /\ [][MessageStepFrame]_vars

\* a text of no known shape has been handled while a callback was registered
C25_Witness ==
    /\ MessageHandled
    /\ history.message[1].payload = Bytes("hello")
    /\ history.message[1].analysed = "unknown"
    /\ status_callbacks # <<>>
    /\ mqtt_connected

-----------------------------------------------------------------------------
(* C23, C24: what a push message does to the devices *)

\* the irrigation timers that self.devices holds
HeldTimers ==
    { pos \in Positions(coordinator.devices) :
        DeviceAt(coordinator.devices, pos).cls = "DiivooWT11W" }

\* the device at pos of self.devices is as set_device_status(api_obj) leaves it
Applied(pos, api_obj) ==
    set_device_status(DeviceAt(coordinator.devices, pos), api_obj).obj
        = DeviceAt(coordinator.devices, pos)

\* the message of the timer with network id 10 and address 5 has been handled
\* while the callback of the coordinator was registered and the timer held
TimerMessageHandled ==
    /\ MessageHandled
    /\ history.message[1].payload = Bytes(TimerMessage)
    /\ history.message[1].called # <<>>
    /\ \E pos \in HeldTimers :
          /\ DeviceAt(coordinator.devices, pos).mid = 10
          /\ DeviceAt(coordinator.devices, pos).address = 5

\* C23: a JSON message for network id 10 with the record D05 is applied to
\* the device with that network id and address 5 through set_device_status,
\* and the notification of the observers is scheduled
C23_PushMessageApplied ==
    TimerMessageHandled =>
        /\ \A pos \in HeldTimers :
              Applied(pos, [id |-> history.message[1].data[1].id,
                            value |-> history.message[1].data[1].value])
        /\ history.message[1].tasks # <<>>

\* a payload of the shape <prefix>#<hex> has been handled while a timer was held
HexPayloadHandled ==
    /\ MessageHandled
    /\ history.message[1].payload = Bytes("11#" \o DocFrame)
    /\ HeldTimers # {}

\* C24: the zones of the timer are as the decoder of the poll path leaves
\* them for the hex stream of the payload
C24_HexPayloadDecoded ==
    HexPayloadHandled =>
        \A pos \in HeldTimers :
            DeviceAt(coordinator.devices, pos).zones
                = _parse_hex_status_data(DeviceAt(coordinator.devices, pos),
                                         DocFrame).obj.zones

-----------------------------------------------------------------------------
(* C21: the poll and the push path write different objects *)

\* the objects that get_device_status, in its thread of the executor, is
\* applying records to
PollWritten == IF poll.active THEN {coordinator.polled} ELSE {}

\* the objects that _process_mqtt_update, in the event loop, looks a device
\* up in: those self.devices holds
PushWritten == IF coordinator.objects = 0 THEN {} ELSE {coordinator.objects}

\* C21: at no time does the poll write a device object that the push path
\* can write: get_device_status works on objects that self.devices does not
\* hold yet
C21_WritesSerialized == PollWritten \cap PushWritten = {}

\* a message for the timer has been handled and a record applied by the poll
\* while self.devices held the objects of an earlier poll
C21_Witness ==
    /\ poll.active
    /\ last.op = "record"
    /\ last.target # None
    /\ coordinator.objects # 0
    /\ MessageHandled
    /\ history.message[1].payload = Bytes(TimerMessage)
    /\ history.message[1].called # <<>>

-----------------------------------------------------------------------------
(* C30: each observer once in status_callbacks *)

\* no entry of list comes twice
NoDuplicates(list) ==
    \A i, j \in 1..Len(list) : list[i] = list[j] => i = j

\* C30: status_callbacks holds each observer at most once, and a JSON
\* message has been passed to each observer once
C30_ObserversOnce ==
    /\ NoDuplicates(status_callbacks)
    /\ MessageHandled => NoDuplicates(history.message[1].called)

-----------------------------------------------------------------------------
(* C22: nothing runs after async_shutdown *)

\* C22: once async_shutdown has completed, no client has a running network
\* loop, whatever call the renewal loop was awaiting when it was cancelled
C22_ShutdownLeavesNoLoop ==
    coordinator.shutdown = "done" => RunningLoops = {}

-----------------------------------------------------------------------------
(* C26, C27: the commands that go out and what they leave of the zones *)

\* the controlWorkMode requests of the last call
ControlRequests ==
    { i \in 1..Len(reply.sent) : reply.sent[i].path = "/app/device/controlWorkMode" }

\* the timers held
Timers == { pos \in Positions(hubs) : DeviceAt(hubs, pos).cls = "DiivooWT11W" }

\* the timer at pos is the one the request body is for
Targets(pos, body) ==
    /\ str(DeviceAt(hubs, pos).mid) = body.mid
    /\ DeviceAt(hubs, pos).address = body.addr

\* C26: every controlWorkMode request sent has its zone within the ports of
\* the target device, mode 0 or 1 and a duration of 0 to 7200 seconds
C26_CommandsInRange ==
    \A i \in ControlRequests :
        /\ reply.sent[i].body.mode \in {0, 1}
        /\ reply.sent[i].body.duration \in 0..7200
        /\ \A pos \in Timers :
              Targets(pos, reply.sent[i].body) =>
                  reply.sent[i].body.port \in 1..DeviceAt(hubs, pos).port_number

\* in a step that keeps the objects, the zones of the timer at pos change
ZonesChange(pos) ==
    /\ last'.op # "get_devices_for_hid"
    /\ DeviceAt(hubs', pos).zones # DeviceAt(hubs, pos).zones

\* the step applied a status record to the timer at pos, which is now as
\* set_device_status leaves it
RecordDecoded(pos) ==
    /\ last'.op = "record"
    /\ last'.target = Some(pos)
    /\ last'.pre = hubs
    /\ DeviceAt(hubs', pos)
          = set_device_status(DeviceAt(hubs, pos), last'.rec).obj

-----------------------------------------------------------------------------
(* C31: every callback is called, whatever the ones before it do *)

\* a step in which _on_mqtt_message took a JSON document
JsonMessageStep ==
    /\ history'.message # history.message
    /\ history'.message # None
    /\ history'.message[1].data # None

\* C31: when a JSON document arrives, the callbacks of status_callbacks are
\* called one after the other in the order of the list, also those behind a
\* callback that raises, and no exception leaves _on_mqtt_message
C31_CallbacksAllCalled ==
    [][JsonMessageStep =>
          /\ history'.message[1].called = status_callbacks
          /\ ~history'.message[1].raised]_vars

\* a document arrived with the failing callback ahead of the coordinator's
C31_Witness ==
    /\ MessageHandled
    /\ history.message[1].data # None
    /\ status_callbacks = <<Failing, "_on_mqtt_status_update">>
    /\ history.message[1].called = <<Failing, "_on_mqtt_status_update">>
    /\ ~history.message[1].raised

-----------------------------------------------------------------------------
(* C32: the device an entity reads *)

\* C32: once the entities exist, the device object each of them reads is the
\* one self.devices holds under its device_id, also after a later refresh
C32_EntitiesFollowRefresh ==
    coordinator.entities # 0 => coordinator.entities = coordinator.objects

-----------------------------------------------------------------------------
(* C33: a refresh that fails publishes nothing *)

\* a step that ends a refresh with UpdateFailed
RefreshFails ==
    /\ coordinator'.update = "idle"
    /\ \/ last' # last
       \/ reply' # reply
       \/ coordinator.update = "records"
    /\ \/ last'.raised
       \/ coordinator.update = "records" /\ last.raised

\* C33: a refresh that fails at a step, be it the login, the listing of the
\* homes or of the devices, the poll or the decoding of a record, leaves
\* self.devices as the last refresh that succeeded left it, and self.devices
\* changes only to the hubs of a refresh that polled every one of them
C33_FailedRefreshKeepsDevices ==
    [][/\ RefreshFails => coordinator'.devices = coordinator.devices
       /\ coordinator'.devices # coordinator.devices =>
              /\ coordinator.update = "status"
              /\ coordinator.hub > Len(hubs)
              /\ coordinator'.devices = hubs]_vars

\* a refresh has failed after it had built devices other than those of the
\* refresh before it, which self.devices still holds
C33_Witness ==
    /\ coordinator.update = "idle"
    /\ last.raised
    /\ coordinator.devices # <<>>
    /\ hubs # coordinator.devices
    /\ coordinator.objects # 0

-----------------------------------------------------------------------------
(* C34: the channel after the renewal loop has given up *)

\* the renewal loop has ended with self.mqtt_connected = False, because
\* renew_subscription or connect_mqtt failed, and nothing was shut down
LoopGaveUp ==
    /\ coordinator.task = "done"
    /\ coordinator.shutdown = "none"
    /\ ~coordinator.mqtt_connected

\* C34: after the renewal loop has given up, a later refresh runs
\* _setup_mqtt_subscription again, unless the integration is shut down
C34_SetupAttemptedAgain ==
    LoopGaveUp ~> (coordinator.task = "subscribe" \/ coordinator.shutdown # "none")

-----------------------------------------------------------------------------
(* C35: the zones table of a DiivooWT11W *)

\* the number that the pair v stands for is not negative
NonNegative(v) == v[1] >= 0 /\ v[2] >= 0

\* C35: whatever status records a DiivooWT11W was given, its zones table has
\* the keys 1, 2 and 3, the status of each zone is on, off_recent or
\* off_idle, active is true exactly when the status is on, and the countdown
\* timer and the duration setting are integers that are not negative
C35_ZonesWellFormed ==
    /\ DOMAIN timer.zones = {1, 2, 3}
    /\ \A p \in DOMAIN timer.zones :
          /\ timer.zones[p].status \in {"on", "off_recent", "off_idle"}
          /\ timer.zones[p].active <=> timer.zones[p].status = "on"
          /\ NonNegative(timer.zones[p].countdown_timer)
          /\ NonNegative(timer.zones[p].duration_setting)

-----------------------------------------------------------------------------
(* C36: the records 'connected' and 'state' of a display hub *)

\* get_device_status, polling a RainPointDisplayHub, has just applied a
\* record with the id 'connected' or 'state'
HubRecordApplied ==
    /\ last.op = "record"
    /\ last.rec.id \in {"connected", "state"}
    /\ ~last.raised
    /\ poll.hub \in 1..Len(hubs)
    /\ hubs[poll.hub].cls = "RainPointDisplayHub"

\* C36: a record 'connected' or 'state' of the poll of a RainPointDisplayHub
\* is applied to the hub and sets its connected, battery_state and wifi_rssi,
\* whatever subdevices the hub has
C36_HubRecordsReachHub ==
    HubRecordApplied =>
        /\ last.target = Some(<<poll.hub, 0>>)
        /\ last.rec.id = "connected" =>
              hubs[poll.hub].connected = Some(last.rec.value = "1")
        /\ last.rec.id = "state" =>
              /\ hubs[poll.hub].battery_state = Some(0)
              /\ hubs[poll.hub].wifi_rssi = Some(-15)

-----------------------------------------------------------------------------
(* C37: the auth cache after a login *)

\* the last call was login or ensure_logged_in; reply.cache is the cache as
\* the call found it
LoginCalled == last.op \in {"login", "ensure_logged_in"}

\* the keys a login writes
LoginFields == {"email", "token", "token_expires", "refresh_token"}

\* C37: a login that fails leaves the auth cache as it found it, and a login
\* that changes the cache has succeeded and has written the four fields
\* email, token, token_expires and refresh_token
C37_CacheUpdatedWhole ==
    LoginCalled /\ cache # reply.cache =>
        /\ ~last.raised
        /\ DOMAIN cache = LoginFields
        /\ cache.email = last.arg
        /\ cache.token = reply.got[1].data.token
        /\ cache.refresh_token = reply.got[1].data.refreshToken

-----------------------------------------------------------------------------
(* C38: the connected flag and the client *)

\* C38: whenever mqtt_connected is True, mqtt_client is not None, however
\* connect_mqtt, disconnect_mqtt, renew_subscription and the callbacks of the
\* broker clients interleave
C38_ConnectedHasClient == mqtt_connected => mqtt_client # None

====
